------------------------------ MODULE PriceTags -----------------------------
(***************************************************************************)
(* Ink price tags: the links between products and shelf tags with their    *)
(* push queue (StoreDatabase), the driver that polls the queue (esl.ts)    *)
(* and the access point that renders a template on a tag.                  *)
(*                                                                         *)
(* A push reads the price, then waits for the access point, and its end is *)
(* written whatever happened to the product or the link meanwhile.         *)
(***************************************************************************)
EXTENDS Integers, Sequences, FiniteSets

CONSTANTS
    Products, Tags,
    Prices,          \* selling prices
    SalePrice,       \* SalePrice[p]: price of the sale that p may get
    SaleStart, SaleEnd, \* SaleStart[p], SaleEnd[p]: instants
    MaxAttempts,     \* 10 in the code
    LastInstant,     \* bound: instants are 0 .. LastInstant
    MaxTagEdits,     \* bound: edits of prices, sales, links and the mode
    MaxPulls,        \* bound: prices that arrive from another device
    None

TagsAssumption ==
    /\ IsFiniteSet(Products)
    /\ None \notin Tags
    /\ Prices \subseteq Nat
    /\ \A p \in Products : /\ SalePrice[p] \in Nat
                           /\ {SaleStart[p], SaleEnd[p]} \subseteq Nat
                           /\ SaleStart[p] < SaleEnd[p]
    /\ MaxAttempts \in Nat \ {0}

VARIABLES
    base,            \* products.selling_price_cents
    onSale,          \* products with a row in sale_prices
    link,            \* price_tag_links by product, or None
    links,           \* links ever created: ids are 1 .. links
    enabled,         \* esl_mode names an access point; the queue is polled
    queue,           \* the rest of the links this pass read; "pushing" if not <<>>
    airing,          \* the price that is on its way to the tag of Head(queue), or None
    shown,           \* what a tag displays, or None
    overtaken,       \* products whose last push was recorded too late (history)
    clock, tagEdits, pulls

vars == <<base, onSale, link, links, enabled, queue, airing, shown, overtaken,
          clock, tagEdits, pulls>>

(* What getProduct resolves: the lowest of the price and an active sale.   *)
PriceNow(p) ==
    IF p \in onSale /\ SaleStart[p] <= clock /\ clock < SaleEnd[p]
                    /\ SalePrice[p] < base[p]
    THEN SalePrice[p] ELSE base[p]

Linked == {p \in Products : link[p] # None}
Pending == {p \in Linked : link[p].status = "pending"}

(* markPriceTagPending: the attempts are kept.                             *)
Requeued(p) ==
    IF link[p] = None THEN link ELSE [link EXCEPT ![p].status = "pending"]

EditTags ==
    /\ tagEdits < MaxTagEdits
    /\ tagEdits' = tagEdits + 1
    /\ UNCHANGED <<airing, shown, overtaken, clock, pulls>>

(* updateProduct, as far as a tag shows it.                                *)
UpdateProduct(p, price) ==
    /\ price # base[p]
    /\ base' = [base EXCEPT ![p] = price]
    /\ link' = Requeued(p)
    /\ EditTags
    /\ UNCHANGED <<onSale, links, enabled, queue>>

CreateSalePrice(p) ==
    /\ p \notin onSale
    /\ onSale' = onSale \cup {p}
    /\ link' = Requeued(p)
    /\ EditTags
    /\ UNCHANGED <<base, links, enabled, queue>>

(* Fault: the tag is not asked to show the old price again.                *)
NotRequeued(p) == link

AfterSale(p) == Requeued(p)

DeleteSalePrice(p) ==
    /\ p \in onSale
    /\ onSale' = onSale \ {p}
    /\ link' = AfterSale(p)
    /\ EditTags
    /\ UNCHANGED <<base, links, enabled, queue>>

(* A price edited on another device is pulled: no tag is marked.           *)
PullProduct(p, price) ==
    /\ pulls < MaxPulls
    /\ pulls' = pulls + 1
    /\ price # base[p]
    /\ base' = [base EXCEPT ![p] = price]
    /\ overtaken' = overtaken \cup {p}
    /\ UNCHANGED <<onSale, link, links, enabled, queue, airing, shown, clock, tagEdits>>

(* ------------------------------ The driver ------------------------------ *)

(* markSaleBoundaryPriceTags: a sale began or ended after the last push.   *)
BoundaryDue(l, p) ==
    /\ l[p] # None /\ l[p].status \in {"synced", "error"}
    /\ p \in onSale
    /\ \/ SaleStart[p] > l[p].pushedAt /\ SaleStart[p] <= clock
       \/ SaleEnd[p] > l[p].pushedAt /\ SaleEnd[p] <= clock

(* processPending, up to its first await, over the links l: unless a pass  *)
(* is running, the tags whose sale began or ended are marked and the queue *)
(* is read, once.                                                          *)
ProcessPending(l) ==
    LET marked == [p \in Products |->
                     IF BoundaryDue(l, p) THEN [l[p] EXCEPT !.status = "pending"]
                     ELSE l[p]]
        pending == {p \in Products : marked[p] # None /\ marked[p].status = "pending"}
    IN  \/ queue # <<>> /\ link' = l /\ UNCHANGED queue
        \/ /\ queue = <<>>
           /\ link' = marked
           /\ \E order \in [1..Cardinality(pending) -> pending] :
                /\ \A p \in pending : \E i \in DOMAIN order : order[i] = p
                /\ queue' = [i \in DOMAIN order |->
                     [id |-> l[order[i]].id, product |-> order[i],
                      tag |-> l[order[i]].tag]]

(* The timer, every four seconds.                                          *)
PollTags ==
    /\ enabled
    /\ ProcessPending(link)
    /\ UNCHANGED <<base, onSale, links, enabled, airing, shown, overtaken, clock,
                   tagEdits, pulls>>

(* assignPriceTag: the tag leaves the product it had, and a product keeps  *)
(* its row, with its id, when it gets another tag.                         *)
Assigned(p, t) ==
    [q \in Products |->
        CASE q = p ->
               [id |-> IF link[p] = None THEN links + 1 ELSE link[p].id,
                tag |-> t, status |-> "pending", attempts |-> 0,
                pushedAt |-> IF link[p] = None THEN -1 ELSE link[p].pushedAt]
          [] q # p /\ link[q] # None /\ link[q].tag = t -> None
          [] OTHER -> link[q]]

AssignPriceTag(p, t) ==
    /\ ProcessPending(Assigned(p, t))
    /\ links' = IF link[p] = None THEN links + 1 ELSE links
    /\ EditTags
    /\ UNCHANGED <<base, onSale, enabled>>

UnbindPriceTag(p) ==
    /\ p \in Linked
    /\ link' = [link EXCEPT ![p] = None]
    /\ EditTags
    /\ UNCHANGED <<base, onSale, links, enabled, queue>>

(* "Push now".                                                             *)
PushNow(p) ==
    /\ p \in Linked
    /\ ProcessPending(Requeued(p))
    /\ EditTags
    /\ UNCHANGED <<base, onSale, links, enabled>>

(* applySettings starts the timer with a pass, or ends it.                 *)
ApplySettings ==
    /\ enabled' = ~enabled
    /\ \/ enabled /\ UNCHANGED <<link, queue>>
       \/ ~enabled /\ ProcessPending(link)
    /\ EditTags
    /\ UNCHANGED <<base, onSale, links>>

(* pushLink reads the product and sends the template.                      *)
PushLink ==
    /\ enabled /\ queue # <<>> /\ airing = None
    /\ airing' = PriceNow(Head(queue).product)
    /\ UNCHANGED <<base, onSale, link, links, enabled, queue, shown, overtaken,
                   clock, tagEdits, pulls>>

(* recordPriceTagPush, by the id of the link, if there still is one.       *)
Recorded(ok) ==
    [p \in Products |->
        IF p \notin Linked \/ link[p].id # Head(queue).id THEN link[p]
        ELSE [link[p] EXCEPT
                !.status = CASE ok -> "synced"
                             [] ~ok /\ link[p].attempts + 1 >= MaxAttempts -> "error"
                             [] OTHER -> "pending",
                !.attempts = IF @ < MaxAttempts THEN @ + 1 ELSE @,
                !.pushedAt = IF ok THEN clock ELSE @]]

PushEnds(ok) ==
    /\ airing' = None
    /\ queue' = Tail(queue)
    /\ link' = Recorded(ok)
    /\ UNCHANGED <<base, onSale, links, enabled, clock, tagEdits, pulls>>

(* The price or the tag that the push was for need not be the one the      *)
(* product has by now.                                                     *)
PushArrives ==
    LET push == Head(queue)
        late == \/ PriceNow(push.product) # airing
                \/ link[push.product] # None /\ link[push.product].tag # push.tag
    IN  /\ airing # None
        /\ shown' = [shown EXCEPT ![push.tag] = airing]
        /\ overtaken' = IF late THEN overtaken \cup {push.product}
                        ELSE overtaken \ {push.product}
        /\ PushEnds(TRUE)

(* The access point refuses, or its answer is lost.                        *)
PushFails ==
    /\ airing # None
    /\ \/ UNCHANGED shown
       \/ shown' = [shown EXCEPT ![Head(queue).tag] = airing]
    /\ UNCHANGED overtaken
    /\ PushEnds(FALSE)

(* Without an access point every push fails (NullEslProvider).             *)
PushRefused ==
    /\ ~enabled /\ queue # <<>> /\ airing = None
    /\ UNCHANGED <<shown, overtaken>>
    /\ PushEnds(FALSE)

Tick ==
    /\ clock < LastInstant
    /\ clock' = clock + 1
    /\ UNCHANGED <<base, onSale, link, links, enabled, queue, airing, shown,
                   overtaken, tagEdits, pulls>>

Init ==
    /\ base \in [Products -> Prices]
    /\ onSale = {}
    /\ link = [p \in Products |-> None]
    /\ links = 0
    /\ enabled = TRUE
    /\ queue = <<>>
    /\ airing = None
    /\ shown = [t \in Tags |-> None]
    /\ overtaken = {}
    /\ clock = 0
    /\ tagEdits = 0
    /\ pulls = 0

DriverStep == PollTags \/ PushLink \/ PushArrives \/ PushFails \/ PushRefused

Next ==
    \/ \E p \in Products :
         \/ \E price \in Prices : UpdateProduct(p, price) \/ PullProduct(p, price)
         \/ CreateSalePrice(p) \/ DeleteSalePrice(p)
         \/ \E t \in Tags : AssignPriceTag(p, t)
         \/ UnbindPriceTag(p) \/ PushNow(p)
    \/ ApplySettings
    \/ DriverStep
    \/ Tick

Spec == Init /\ [][Next]_vars

(* The queue is polled every four seconds, and a request to the access     *)
(* point ends.                                                             *)
Fairness == WF_vars(DriverStep)

-----------------------------------------------------------------------------
TypeOK ==
    /\ \A p \in Linked : /\ link[p].id \in 1..links
                         /\ link[p].tag \in Tags
                         /\ link[p].status \in {"pending", "synced", "error"}
                         /\ link[p].attempts \in 0..MaxAttempts
    /\ \A p, q \in Linked : link[p].tag = link[q].tag => p = q
    /\ airing # None => queue # <<>>

(* A tag whose link is synced shows the price the register charges, through*)
(* every edit of prices, sales, links and the settings, or the next poll   *)
(* renews it because a sale began or ended meanwhile.  Left out are        *)
(* products whose push was overtaken by a change, or whose price came from *)
(* another device: those the code leaves stale (processPending,            *)
(* recordPriceTagPush, markSaleBoundaryPriceTags).                         *)
TagsTellThePrice ==
    \A p \in Linked \ overtaken :
        link[p].status = "synced" =>
            shown[link[p].tag] = PriceNow(p) \/ BoundaryDue(link, p)

(* A link does not wait for ever while an access point is set: it is       *)
(* pushed, or parked as an error after MaxAttempts (recordPriceTagPush).   *)
TagsSettle ==
    \A p \in Products : p \in Pending ~> (p \notin Pending \/ ~enabled)
=============================================================================
