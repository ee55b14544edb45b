------------------------------- MODULE Access --------------------------------
(***************************************************************************)
(* Who may do what on a manager in staff mode: accounts with PINs that     *)
(* lock, one signed-in session that idles out, and an owner's approval of  *)
(* one action of a cashier.                                                *)
(*                                                                         *)
(* A PIN is the account it belongs to; None is nobody's PIN.  A request is *)
(* "public", "owner" or the permission it needs.                           *)
(***************************************************************************)
EXTENDS Naturals, FiniteSets

CONSTANTS
    Staff,           \* accounts that may be created
    Permissions,     \* GRANTABLE_PERMISSIONS
    MaxAttempts,     \* wrong PINs that lock an account
    LockTime,        \* how long it stays locked
    IdleTime,        \* idleLockMinutes, 0 when the session never idles out
    ElevationTime,   \* how long an approval waits for its action
    MaxTime,         \* bound: the clock
    None

AccessAssumption ==
    /\ {LockTime, IdleTime, MaxTime} \subseteq Nat
    /\ {MaxAttempts, ElevationTime} \subseteq Nat \ {0}
    /\ None \notin Staff \cup Permissions
    /\ IsFiniteSet(Staff)

Roles == {"owner", "cashier"}
Requirements == Permissions \cup {"public", "owner"}

VARIABLES
    staff,           \* id |-> [role, active, permissions, failed, lockedUntil]
    staffMode,       \* device_settings.staff_mode_enabled
    current,         \* who is signed in: [id, role, permissions], or None
    elevation,       \* [permission, expiresAt], or None
    lastActivity,
    shown,           \* the accounts as the settings screen shows them
    approval,        \* the permission the approval dialog asks for, or None
    time,
    permits,         \* approvals of this session not used yet (history)
    overdrawn        \* a request went through without one (history)

accountVars == <<staff, staffMode>>
sessionVars == <<current, elevation, lastActivity>>
screenVars == <<shown, approval>>
historyVars == <<permits, overdrawn>>
vars == <<accountVars, sessionVars, screenVars, time, historyVars>>

Account(role, permissions) ==
    [role |-> role, active |-> TRUE, permissions |-> permissions,
     failed |-> 0, lockedUntil |-> 0]

NoAccounts == [s \in {} |-> None]

Owners == {s \in DOMAIN staff : staff[s].role = "owner" /\ staff[s].active}
Locked(s) == staff[s].lockedUntil > time

(* ------------------------------- The PINs -------------------------------- *)

Accepted(row) == [row EXCEPT !.failed = 0, !.lockedUntil = 0]
Rejected(row) ==
    LET attempts == row.failed + 1
    IN  IF attempts >= MaxAttempts
        THEN [row EXCEPT !.failed = 0, !.lockedUntil = time + LockTime]
        ELSE [row EXCEPT !.failed = attempts, !.lockedUntil = 0]

(* verifyStaffPin: whether it is right, and what becomes of the account.   *)
PinIsRight(s, pin) == staff[s].active /\ ~Locked(s) /\ pin = s
VerifyStaffPin(s, pin) ==
    staff' = IF ~staff[s].active \/ Locked(s) THEN staff
             ELSE [staff EXCEPT ![s] = IF pin = s THEN Accepted(@) ELSE Rejected(@)]

(* verifyActiveOwnerPin: a PIN no unlocked owner has counts against all.   *)
OwnerPin(pin) == pin \in Owners /\ ~Locked(pin)
VerifyActiveOwnerPin(pin) ==
    staff' = [s \in DOMAIN staff |->
                 IF OwnerPin(pin) THEN IF s = pin THEN Accepted(staff[s]) ELSE staff[s]
                 ELSE IF s \in Owners /\ ~Locked(s) THEN Rejected(staff[s])
                 ELSE staff[s]]

(* ------------------------------- Requests -------------------------------- *)

Idle == current # None /\ IdleTime > 0 /\ time >= lastActivity + IdleTime

(* expireIfIdle, its second half.                                          *)
Live == IF elevation # None /\ elevation.expiresAt > time THEN elevation ELSE None

(* A cashier's request that only an approval lets through.                 *)
Spends(request) ==
    /\ staffMode /\ request # "public"
    /\ current # None /\ ~Idle
    /\ current.role # "owner" /\ request \notin current.permissions
    /\ Live # None /\ Live.permission = request

Allowed(request) ==
    \/ request = "public" \/ ~staffMode
    \/ current # None /\ ~Idle /\ (current.role = "owner" \/ request \in current.permissions)
    \/ Spends(request)

(* Fault: the approval is still there afterwards.                          *)
Unspent(request) == Live

Remaining(request) == IF Spends(request) THEN None ELSE Live

Usable(permit, request) == permit.permission = request /\ time < permit.until

(* authorize, passed; then touch.                                          *)
Admit(request) ==
    /\ Allowed(request)
    /\ elevation' = IF request = "public" \/ ~staffMode THEN elevation ELSE Remaining(request)
    /\ lastActivity' = time
    /\ permits' = IF Spends(request)
                  THEN permits \ {p \in permits : p.permission = request}
                  ELSE permits
    /\ overdrawn' = (overdrawn \/ (Spends(request) /\ \A p \in permits : ~Usable(p, request)))
    /\ UNCHANGED current

EndSession ==
    /\ current' = None
    /\ elevation' = None
    /\ permits' = {}
    /\ UNCHANGED overdrawn

(* A request that goes through, of any screen.                             *)
Call(request) ==
    /\ Admit(request)
    /\ UNCHANGED <<accountVars, screenVars, time>>

(* PERMISSION_DENIED: the cashier may ask an owner to approve.             *)
Deny(request) ==
    /\ ~Allowed(request)
    /\ IF Idle
       THEN EndSession /\ UNCHANGED approval
       ELSE /\ elevation' = IF current = None THEN elevation ELSE Live
            /\ approval' = IF current # None /\ request \in Permissions THEN request ELSE approval
            /\ UNCHANGED <<current, historyVars>>
    /\ UNCHANGED <<accountVars, lastActivity, shown, time>>

(* auth:elevate, from the dialog.                                          *)
Elevate(pin) ==
    /\ approval # None
    /\ VerifyActiveOwnerPin(pin)
    /\ IF OwnerPin(pin)
       THEN /\ elevation' = [permission |-> approval, expiresAt |-> time + ElevationTime]
            /\ permits' = permits \cup {[permission |-> approval, until |-> time + ElevationTime]}
            /\ approval' = None
       ELSE UNCHANGED <<elevation, permits, approval>>
    /\ lastActivity' = time
    /\ UNCHANGED <<staffMode, current, shown, time, overdrawn>>

CancelApproval ==
    /\ approval # None
    /\ approval' = None
    /\ UNCHANGED <<accountVars, sessionVars, shown, time, historyVars>>

(* ------------------------------ The session ------------------------------ *)

SignedIn(s, row) ==
    [id |-> s, role |-> row.role,
     permissions |-> IF row.role = "owner" THEN Permissions ELSE row.permissions]

(* Fault: signing in leaves an approval given before it.                   *)
KeepElevation == UNCHANGED elevation

DropElevation == elevation' = None

(* The lock screen is all there is, with the active accounts to pick from. *)
LockScreen(s) == staffMode /\ current = None /\ s \in DOMAIN staff /\ staff[s].active

(* auth:signIn.                                                            *)
SignIn(s, pin) ==
    /\ LockScreen(s)
    /\ VerifyStaffPin(s, pin)
    /\ IF PinIsRight(s, pin)
       THEN current' = SignedIn(s, staff[s]) /\ DropElevation /\ permits' = {}
       ELSE UNCHANGED <<current, elevation, permits>>
    /\ lastActivity' = time
    /\ UNCHANGED <<staffMode, screenVars, time, overdrawn>>

SignOut ==
    /\ current # None
    /\ EndSession
    /\ lastActivity' = time
    /\ UNCHANGED <<accountVars, screenVars, time>>

(* The timer of the main process.                                          *)
CheckIdle ==
    /\ Idle
    /\ EndSession
    /\ UNCHANGED <<accountVars, lastActivity, screenVars, time>>

Tick ==
    /\ time < MaxTime
    /\ time' = time + 1
    /\ UNCHANGED <<accountVars, sessionVars, screenVars, historyVars>>

(* ------------------------------ The accounts ----------------------------- *)

(* An account of any role, made while staff mode is off, ends the offer.   *)
FirstOwnerSetup == ~staffMode /\ DOMAIN staff = {}

(* createFirstOwner and the sign-in that follows.                          *)
CreateFirstOwner(s) ==
    /\ FirstOwnerSetup
    /\ staff' = [t \in {s} |-> Account("owner", {})]
    /\ staffMode' = TRUE
    /\ current' = SignedIn(s, staff'[s])
    /\ DropElevation
    /\ permits' = {}
    /\ lastActivity' = time
    /\ UNCHANGED <<screenVars, time, overdrawn>>

(* StaffSection.refresh.                                                   *)
Refresh ==
    /\ Admit("owner")
    /\ shown' = staff
    /\ UNCHANGED <<accountVars, approval, time>>

CreateStaff(s, role, permissions) ==
    /\ Admit("owner")
    /\ s \notin DOMAIN staff
    /\ staff' = [t \in DOMAIN staff \cup {s} |->
                   IF t = s THEN Account(role, permissions) ELSE staff[t]]
    /\ shown' = staff'
    /\ UNCHANGED <<staffMode, approval, time>>

(* Fault: an owner can always be deactivated.                              *)
Anyone(s) == TRUE

Dispensable(s) == ~(s \in Owners /\ Cardinality(Owners) <= 1)

Listed(s) == s \in DOMAIN shown

(* updateStaff with what the screen shows of the account, one thing of it  *)
(* changed; a second click may come before the screen is refreshed.        *)
UpdateStaff(s, change) ==
    /\ Listed(s) /\ s \in DOMAIN staff
    /\ Admit("owner")
    /\ ~change.active => Dispensable(s)
    /\ staff' = [staff EXCEPT ![s].active = change.active,
                              ![s].permissions = change.permissions]
    /\ UNCHANGED <<staffMode, screenVars, time>>

ToggleActive(s) ==
    Listed(s) /\ UpdateStaff(s, [shown[s] EXCEPT !.active = ~@])
TogglePermission(s, p) ==
    /\ Listed(s) /\ shown[s].role = "cashier"
    /\ UpdateStaff(s, [shown[s] EXCEPT !.permissions = IF p \in @ THEN @ \ {p} ELSE @ \cup {p}])

SetStaffPin(s) ==
    /\ Listed(s) /\ s \in DOMAIN staff
    /\ Admit("owner")
    /\ staff' = [staff EXCEPT ![s] = Accepted(@)]
    /\ UNCHANGED <<staffMode, screenVars, time>>

(* backups:restore of a backup from before the staff mode; the application *)
(* starts again.                                                           *)
ReplaceDatabase ==
    /\ Allowed("owner")
    /\ staff' = NoAccounts
    /\ staffMode' = FALSE
    /\ EndSession
    /\ lastActivity' = time
    /\ shown' = NoAccounts
    /\ approval' = None
    /\ UNCHANGED time

(* ---------------------------- The specification -------------------------- *)

Init ==
    /\ staff = NoAccounts
    /\ staffMode = FALSE
    /\ current = None
    /\ elevation = None
    /\ lastActivity = 0
    /\ shown = NoAccounts
    /\ approval = None
    /\ time = 0
    /\ permits = {}
    /\ overdrawn = FALSE

Next ==
    \/ \E request \in Requirements : Call(request) \/ Deny(request)
    \/ \E pin \in Staff \cup {None} : Elevate(pin)
    \/ CancelApproval
    \/ \E s \in Staff, pin \in Staff \cup {None} : SignIn(s, pin)
    \/ SignOut \/ CheckIdle \/ Tick
    \/ Refresh \/ ReplaceDatabase
    \/ \E s \in Staff :
        \/ CreateFirstOwner(s)
        \/ \E role \in Roles, permissions \in SUBSET Permissions :
            CreateStaff(s, role, permissions)
        \/ ToggleActive(s) \/ SetStaffPin(s)
        \/ \E p \in Permissions : TogglePermission(s, p)

Spec == Init /\ [][Next]_vars

(* ------------------------------- Properties ------------------------------ *)

Accounts == [role : Roles, active : BOOLEAN, permissions : SUBSET Permissions,
             failed : Nat, lockedUntil : Nat]

TypeOK ==
    /\ DOMAIN staff \subseteq Staff /\ \A s \in DOMAIN staff : staff[s] \in Accounts
    /\ staffMode \in BOOLEAN /\ overdrawn \in BOOLEAN
    /\ current \in [id : Staff, role : Roles, permissions : SUBSET Permissions] \cup {None}
    /\ elevation \in [permission : Permissions, expiresAt : Nat] \cup {None}
    /\ approval \in Permissions \cup {None}
    /\ time \in Nat /\ lastActivity \in 0..time
    /\ DOMAIN shown \subseteq Staff /\ \A s \in DOMAIN shown : shown[s] \in Accounts

(* Owners decide: staff mode never runs out of active owners, whatever a   *)
(* stale settings screen sends, and what a cashier does beyond the own     *)
(* permissions uses up an owner's PIN, entered for that permission after   *)
(* this cashier signed in and not too long ago (authorize, elevate,        *)
(* updateStaff).                                                           *)
OwnersDecide == (staffMode => Owners # {}) /\ ~overdrawn
==============================================================================
