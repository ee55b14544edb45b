------------------------------- MODULE MCRemote -------------------------------
(***************************************************************************)
(* Remote for TLC.  A behaviour plays one scene: one component takes its   *)
(* steps and the others stay as they started, so that the states of the    *)
(* run are the sum of the components' and not their product, which adds    *)
(* only interleavings of steps that cannot see each other.                 *)
(***************************************************************************)
EXTENDS Remote, TLC

CONSTANTS wine, acme, best

VARIABLE scene

All(n) == [p \in {wine} |-> n]
One == All(1)
Two == All(2)
Catalog(n) == [v \in {acme, best} |-> All(n)]
Cases == Catalog(2)
NoMinimum == Catalog(0)
NoDefault == [v \in {acme, best} |-> 0]
FromBoth == All({acme, best})
PreferAcme == All(acme)

Scenes == {"mail", "deliveries", "tags", "kiosk", "revoked"}

(* A component that does not play has one initial state.                   *)
SceneInit ==
    /\ scene \in Scenes
    /\ RemoteInit
    /\ scene # "tags" => base = All(3)
    /\ encrypts <=> scene = "revoked"

(* Orders that acme gets by mail: every fault once, and no goods.          *)
OnlyMail ==
    /\ stock' = stock /\ sold' = sold /\ listEdits' = listEdits
    /\ sheet' # None => sheet'.vendor = acme

(* Two vendors, orders that are placed by phone and delivered in parts,    *)
(* and the list edited.                                                    *)
ByPhone ==
    /\ mail' = <<>> /\ unqueued' = None /\ crashes' = 0 /\ configEdits' = 0
    /\ \A o \in Drafted' : ~order'[o].published

(* A kiosk that crashes, loses its token then, or charges in the cloud.    *)
GoodDisk == revokes' = 0 /\ ~broken' /\ ~encrypts'

(* A kiosk with a bad disk that the manager turns off.                     *)
OneCharge == charges' < 2 /\ encrypts'

SceneNext ==
    /\ \/ scene = "mail" /\ SendOrders /\ OnlyMail
       \/ scene = "deliveries" /\ SendOrders /\ ByPhone
       \/ scene = "tags" /\ PushPrices
       \/ scene = "kiosk" /\ ServeShoppers /\ GoodDisk
       \/ scene = "revoked" /\ ServeShoppers /\ OneCharge
    /\ UNCHANGED scene

(* The fairness that the components state.                                 *)
SceneFairness ==
    /\ WF_vars(scene = "mail" /\ WorkerStep)
    /\ WF_vars(scene = "mail" /\ EnqueueEmail)
    /\ WF_vars(scene = "mail" /\ Restart)
    /\ WF_shelfVars(scene = "tags" /\ Shelf!DriverStep)
    /\ WF_kioskVars(scene = "kiosk" /\ Kiosk!PollSent)
    /\ WF_kioskVars(scene = "kiosk" /\ dirty /\ (Kiosk!Persist \/ Kiosk!PersistFails))
    /\ WF_kioskVars(/\ scene = "kiosk"
               /\ \/ Kiosk!ChargeTaken \/ Kiosk!ChargeRefused
                  \/ Kiosk!ChargeDenied \/ Kiosk!ChargeLost)
    /\ WF_kioskVars(scene = "kiosk" /\ Kiosk!ChargeAnswered)
    /\ SF_kioskVars(scene = "kiosk" /\ (Kiosk!PollAnswered \/ Kiosk!PollDenied))
    /\ WF_kioskVars(scene = "kiosk" /\ Kiosk!Restart)
    /\ \A c \in Kiosk!Charges :
         WF_kioskVars(/\ scene = "kiosk"
                 /\ tx[c] # None /\ tx[c].status \in Kiosk!Unsettled
                 /\ Kiosk!ManagerSettles(c))

SceneSpec == SceneInit /\ [][SceneNext]_<<scene, remoteVars>> /\ SceneFairness

-----------------------------------------------------------------------------
(* Nothing waits for ever: a queued mail is sent or given up, a pending    *)
(* price tag is pushed or parked as an error, and the charge in flight on  *)
(* a paired kiosk is settled (MailWorker, EslDriver, scheduleChargePoll).  *)
Settles ==
    /\ \A m \in 1..MaxMails : scene = "mail" /\ m \in Pending ~> m \notin Pending
    /\ \A p \in Products :
         scene = "tags" /\ p \in Shelf!Pending ~> p \notin Shelf!Pending \/ ~enabled
    /\ \A c \in Kiosk!Charges :
         scene = "kiosk" /\ inFlight = c /\ mode = "lan"
             ~> inFlight # c \/ mode # "lan" \/ ~Kiosk!Paired \/ broken
==============================================================================
