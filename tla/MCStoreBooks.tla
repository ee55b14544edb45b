---------------------------- MODULE MCStoreBooks ----------------------------
(* Bounded instance of StoreBooks.                                         *)
EXTENDS StoreBooks

CONSTANTS ann, ben

MCProducts == {"fish", "soap"}
MCBasePrice == [p \in MCProducts |-> IF p = "fish" THEN 799 ELSE 250]
MCSoldBy == [p \in MCProducts |-> IF p = "fish" THEN "weight" ELSE "each"]
MCSalePrices == [p \in MCProducts |->
    IF p = "soap"
    THEN {[price |-> 199, percentOff |-> 0, startsAt |-> 2, endsAt |-> 9]}
    ELSE {[price |-> NoPrice, percentOff |-> 1000, startsAt |-> 1, endsAt |-> 2]}]
MCStartStock == [p \in MCProducts |-> IF p = "fish" THEN 900 ELSE 2]

Cart(fish, soap) == [p \in MCProducts |-> IF p = "fish" THEN fish ELSE soap]
Label(price) == [p \in MCProducts |-> IF p = "fish" THEN price ELSE NoPrice]

Request(key, cart, method, customerId, received, remainder) ==
    [key |-> key, cart |-> cart, override |-> Label(NoPrice), method |-> method,
     customer |-> customerId, received |-> received, reference |-> "slip",
     remainder |-> remainder]

MCSaleRequests ==
    {Request("s1", Cart(0, 2), "cash", None, 600, None),
     Request("s1", Cart(0, 2), "account", ben, 0, None),
     Request("s2", Cart(0, 1), "account", ann, 0, None),
     Request("s3", Cart(800, 1), "snap_ebt", None, 300, "cash"),
     Request("s3", Cart(800, 1), "external_terminal", None, 0, None),
     [Request("s3", Cart(800, 0), "snap_ebt", None, 0, None)
        EXCEPT !.override = Label(300)]}

MCPaymentRequests ==
    {[operation |-> "p1", customer |-> ann, amount |-> 200,
      method |-> "cash", received |-> 250],
     [operation |-> "p1", customer |-> ann, amount |-> 100,
      method |-> "external_terminal", received |-> 0]}

Back(operation, key, cart, put, reference) ==
    [operation |-> operation, sale |-> key, quantity |-> cart,
     restocked |-> put, reference |-> reference]

MCRefundRequests ==
    {Back("f1", "s1", Cart(0, 1), {"soap"}, FALSE),
     Back("f1", "s3", Cart(700, 0), {"fish"}, FALSE),
     Back("f2", "s1", Cart(0, 2), {}, FALSE),
     Back("f2", "s3", Cart(100, 1), {}, FALSE),
     Back("f2", "s3", Cart(800, 1), {}, TRUE)}

MCDrawerMovements == {[kind |-> "drop", amount |-> 50]}
=============================================================================
