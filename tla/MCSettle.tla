------------------------------ MODULE MCSettle ------------------------------
(***************************************************************************)
(* What must eventually happen: small instances of the parts of the store  *)
(* with the fairness their schedules justify.                              *)
(***************************************************************************)
EXTENDS Parts, Integers

processedFirst ==
    {<<"requires_payment_method", "processing">>, <<"processing", "succeeded">>,
     <<"processing", "requires_payment_method">>}

batchOf(c) == 1
stockOf(c) == IF c = "c1" THEN 1 ELSE 0

Shop == INSTANCE CheckoutProperties WITH
    now <- x1, onHand <- x2, available <- x3, reserved <- x4, movement <- x5,
    cart <- x6, order <- x7, reservation <- x8, payments <- x9, proof <- x10,
    uploads <- x11, uses <- x12, applied <- x13, approvals <- x14,
    Orders <- {"order"}, Variants <- {"v1", "v2"}, Customers <- {"ana"},
    Carts <- {"cart"}, OpeningCarts <- {"cart"}, Proofs <- {},
    Choices <- {"CASH", "BANK_TRANSFER"},
    Destinations <- {"PICKUP", "MERIDA"},
    OpeningStock <- [v1 |-> 1, v2 |-> 1], Baskets <- {[v1 |-> 1, v2 |-> 1]},
    MaxQty <- 1, Recounts <- {}, LocalFee <- 1, Quotes <- {2}, ShortLife <- 1,
    TransferLife <- 2, CashLife <- 3, QuoteLife <- 2, LastCall <- 2,
    MaxTime <- 5, MaxAttempts <- 2, MaximumUses <- 1, PerCustomerLimit <- 1,
    WelcomeOnly <- FALSE
Gateway == INSTANCE PaymentGateway WITH
    now <- x1, onHand <- x2, available <- x3, reserved <- x4, movement <- x5,
    cart <- x6, order <- x7, reservation <- x8, payments <- x9, proof <- x10,
    uploads <- x11, uses <- x12, applied <- x13, approvals <- x14,
    charge <- x15, notified <- x16, webhook <- x17, request <- x18,
    Orders <- {"order"}, Variants <- {"variant"}, Customers <- {"ana"},
    Carts <- {"cart"}, OpeningCarts <- {"cart"}, Proofs <- {},
    Choices <- {"CARD_STRIPE", "CASH"}, Destinations <- {"PICKUP"},
    OpeningStock <- [variant |-> 1], Baskets <- {[variant |-> 1]},
    MaxQty <- 1, Recounts <- {}, LocalFee <- 1, Quotes <- {2}, ShortLife <- 1,
    TransferLife <- 1, CashLife <- 2, QuoteLife <- 1, LastCall <- 0,
    MaxTime <- 1, MaxAttempts <- 2, MaximumUses <- 1, PerCustomerLimit <- 1,
    WelcomeOnly <- FALSE, Charges <- {"charge"}, Workers <- {"worker"},
    Faults <- FALSE, Moves <- processedFirst
Mail == INSTANCE Outbox WITH
    row <- x1, outdated <- x2, mailer <- x3, mails <- x4, tried <- x5,
    spent <- x6, Events <- {"e1", "e2"}, Replicas <- {"r1", "r2"},
    kindOf <- [e1 |-> "ORDER_CREATED", e2 |-> "CUSTOMER_PASSWORD_RESET_REQUESTED"],
    AttemptLimit <- 3, Batch <- 2, Cooldown <- 2, MaxDelay <- 2, Limits <- 1,
    Stops <- 0, Resends <- 0
StockAlerts == INSTANCE InventoryAlerts WITH
    stock <- x1, alert <- x2, sent <- x3, scan <- x4, day <- x5,
    changes <- x6, failures <- x7, Replicas <- {"replica"}, Levels <- {"l1"},
    Alerts <- {"a1", "a2", "a3"}, Most <- 2, Threshold <- 1, Limit <- 2,
    Days <- 0, Failures <- 2, Changes <- 3
Bell == INSTANCE AdminNotifications WITH
    quote <- x1, row <- x2, feed <- x3, firstLoad <- x4, notified <- x5,
    polls <- x6, marks <- x7, announced <- x8, count <- x9,
    Orders <- {"order"}, Slots <- {1, 2}, MaxChanges <- 0, MaxFailures <- 1,
    MaxReloads <- 1, MaxMarkAll <- 0
Payment == INSTANCE PaymentPage WITH
    order <- x1, provider <- x2, intent <- x3, charged <- x4, applied <- x5,
    page <- x6, held <- x7, quotes <- x8, Pages <- {"page"}, Fees <- {1},
    Quotes <- 1, Answers <- 1
Sessions == INSTANCE CustomerSessions WITH
    account <- x1, session <- x2, tokens <- x3, cookie <- x4, tab <- x5,
    link <- x6, resetter <- x7, made <- x8,
    Tabs <- {"t1", "t2"}, Browsers <- {"browser"},
    browserOf <- [t1 |-> "browser", t2 |-> "browser"], Links <- {},
    Resetters <- {}, Registered <- FALSE, MaxTokens <- 2, MaxPasswords <- 1
Site == INSTANCE SiteContent WITH
    site <- x1, revisions <- x2, editor <- x3, requests <- x4, answers <- x5,
    shop <- x6, made <- x7, overtaken <- x8, pressed <- x9, spent <- x10,
    Editors <- {"editor"}, Edits <- {"e1", "e2"}, Half <- "half",
    Presses <- 0, Faults <- 2, Loads <- 1, Renderings <- 0, Outages <- 0
Tracking == INSTANCE OrderTracking WITH
    order <- x1, proofs <- x2, bucket <- x3, tab <- x4, desk <- x5,
    faults <- x6, Tabs <- {"tab"}, Desks <- {"desk"}, Files <- {"file"},
    Shown <- 3, Loads <- 1, Faults <- 1
Deployed == INSTANCE Deployment WITH
    settings <- x1, product <- x2, level <- x3, imported <- x4, extra <- x5,
    sold <- x6, epoch <- x7, seeder <- x8, edits <- x9, up <- x10,
    script <- x11, saved <- x12, placed <- x13, late <- x14, resets <- x15,
    interruptions <- x16, Catalog <- {"c1", "c2"}, BatchOf <- batchOf,
    StockOf <- stockOf, Seeders <- {"s1", "s2"}, Orders <- {"order"},
    Edits <- 0, Resets <- 0, Interruptions <- 1, Absent <- None

Init ==
    \/ part = "orders" /\ Shop!Init /\ Off15
    \/ part = "charges" /\ Gateway!GatewayInit
    \/ part = "mail" /\ Mail!OutboxInit /\ Off7
    \/ part = "alerts" /\ StockAlerts!Init /\ Off8
    \/ part = "bell" /\ Bell!Init /\ Off10
    \/ part = "payment" /\ Payment!Init /\ Off9
    \/ part = "tabs" /\ Sessions!Init /\ Off9
    \/ part = "site" /\ Site!Init /\ Off11
    \/ part = "proofs" /\ Tracking!Init /\ Off7
    \/ part = "deployment" /\ Deployed!InitDeployment /\ Off17

Next ==
    \/ part = "orders" /\ Shop!Next /\ UNCHANGED <<part, from15>>
    \/ part = "charges" /\ Gateway!GatewayNext /\ UNCHANGED part
    \/ part = "mail" /\ Mail!OutboxNext /\ UNCHANGED <<part, from7>>
    \/ part = "alerts" /\ StockAlerts!Next /\ UNCHANGED <<part, from8>>
    \/ part = "bell" /\ Bell!Next /\ UNCHANGED <<part, from10>>
    \/ part = "payment" /\ Payment!Next /\ UNCHANGED <<part, from9>>
    \/ part = "tabs" /\ Sessions!Next /\ UNCHANGED <<part, from9>>
    \/ part = "site" /\ Site!Next /\ UNCHANGED <<part, from11>>
    \/ part = "proofs" /\ Tracking!Next /\ UNCHANGED <<part, from7>>
    \/ part = "deployment" /\ Deployed!DeployNext /\ UNCHANGED <<part, from17>>

Fairness ==
    /\ WF_all(part = "orders" /\ Shop!Tick /\ UNCHANGED <<part, from15>>)
    /\ \A v \in {"v1", "v2"} : WF_all(part = "orders" /\ Shop!ExpireOne("order", v) /\ UNCHANGED <<part, from15>>)
    /\ WF_all(part = "charges" /\ Gateway!Tick /\ UNCHANGED <<part, x15, x16, x17, x18>>)
    /\ WF_all(part = "charges" /\ Gateway!ExpireOne("order", "variant") /\ UNCHANGED <<part, x15, x16, x17, x18>>)
    /\ WF_all(part = "charges" /\ Gateway!Step("worker") /\ UNCHANGED part)
    /\ SF_all(part = "charges" /\ Gateway!ReceiveWebhook("worker", <<"charge", "succeeded">>) /\ UNCHANGED part)
    /\ WF_all(part = "mail" /\ Mail!Tick /\ UNCHANGED <<part, from7>>)
    /\ \A r \in {"r1", "r2"} : WF_all(part = "mail" /\ Mail!MailerStep(r) /\ UNCHANGED <<part, from7>>)
    /\ WF_all(part = "alerts" /\ StockAlerts!Step("replica") /\ UNCHANGED <<part, from8>>)
    /\ \A s \in {1, 2} : /\ WF_all(part = "bell" /\ Bell!load(s) /\ UNCHANGED <<part, from10>>)
                       /\ WF_all(part = "bell" /\ Bell!loaded(s) /\ UNCHANGED <<part, from10>>)
    /\ \A m \in Bell!Notes \cup {Bell!All} : WF_all(part = "bell" /\ Bell!serveMark(m) /\ UNCHANGED <<part, from10>>)
    /\ WF_all(part = "payment" /\ Payment!PollRead("page") /\ UNCHANGED <<part, from9>>)
    /\ SF_all(part = "payment" /\ (\E s \in x6["page"].polls : Payment!PollArrives("page", s)) /\ UNCHANGED <<part, from9>>)
    /\ \A t \in {"t1", "t2"} : /\ WF_all(part = "tabs" /\ Sessions!ServerStep(t) /\ UNCHANGED <<part, from9>>)
                           /\ WF_all(part = "tabs" /\ (Sessions!Answer(t) \/ Sessions!Lose(t)) /\ UNCHANGED <<part, from9>>)
    /\ WF_all(part = "site" /\ (\E c \in x4 : Site!Serve(c)) /\ UNCHANGED <<part, from11>>)
    /\ WF_all(part = "site" /\ (\E answer \in x5 : Site!Receive(answer)) /\ UNCHANGED <<part, from11>>)
    /\ WF_all(part = "site" /\ Site!Autosave("editor") /\ UNCHANGED <<part, from11>>)
    /\ WF_all(part = "site" /\ Site!Render /\ UNCHANGED <<part, from11>>)
    /\ WF_all(part = "proofs" /\ Tracking!Refresh("desk") /\ UNCHANGED <<part, from7>>)
    /\ WF_all(part = "proofs" /\ Tracking!RefreshArrives("desk") /\ UNCHANGED <<part, from7>>)
    /\ SF_all(part = "proofs" /\ (\E s \in {"APPROVED", "REJECTED"} : Tracking!ReviewProof("desk", s)) /\ UNCHANGED <<part, from7>>)
    /\ WF_all(part = "deployment" /\ Deployed!ScriptStep /\ UNCHANGED <<part, from17>>)
    /\ \A s \in {"s1", "s2"} : WF_all(part = "deployment" /\ Deployed!Seeding(s) /\ UNCHANGED <<part, from17>>)
    /\ WF_all(part = "deployment" /\ ~x10 /\ Deployed!Deploy(TRUE, FALSE) /\ UNCHANGED <<part, from17>>)

Spec == Init /\ [][Next]_all /\ Fairness
-----------------------------------------------------------------------------
(* Properties: those of the modules, each for the part it is about.  Of    *)
(* variants, events, levels, tabs and edits, which the parts treat alike,  *)
(* the first stands for all.                                               *)

\* No stock is held for ever: every reservation ends.
StockComesBack ==
    (part = "orders" /\ Shop!Holding("order", "v1")) ~> (part = "orders" => ~Shop!Holding("order", "v1"))

\* Every order stops waiting for its payment: it is paid, cancelled or expired.
OrdersSettle ==
    (part = "orders" /\ Shop!Awaiting("order")) ~> (part = "orders" => ~Shop!Awaiting("order"))

\* Every payment that a provider takes ends as a sold order or as a refund.
ChargesSettle ==
    (part = "charges" /\ Gateway!Kept("charge")) ~> (part = "charges" => Gateway!SettledCharge("charge"))

\* Every event of the outbox is mailed or given up, across the daily limits and
\* the failures of the mail server.
EventsSettle == (part = "mail" /\ Mail!Owed("e1")) ~> (part = "mail" => Mail!Ended("e1"))

\* What the timers and the employees take on is done in the end: a level that
\* stays low gets an alert and a reminder, an open panel announces a new order, a
\* proof is reviewed unless its order is closed, and the first deployment opens
\* the store, across queries and polls that fail or overlap and interruptions.
WorkIsDone ==
    \/ part = "alerts" /\ StockAlerts!low("l1")
    \/ part = "bell" /\ Bell!Arrived("order")
    \/ part = "proofs" /\ Tracking!CameIn("file")
    \/ part = "deployment"
    ~> /\ part = "alerts" => ~StockAlerts!low("l1") \/ StockAlerts!Told("l1")
       /\ part = "bell" => Bell!Announced("order")
       /\ part = "proofs" => Tracking!isTerminal(x1) \/ Tracking!Reviewed("file")
       /\ part = "deployment" => Deployed!Opened

\* Pages catch up with the server: the quote a customer waits for arrives, a tab
\* learns who is signed in, and what an editor typed is stored or leaves the
\* screen, whatever requests and answers are lost.
PagesCatchUp ==
    \/ part = "payment" /\ Payment!Outdated("page")
    \/ part = "tabs" /\ Sessions!Asking("t1")
    \/ part = "site" /\ Site!Typed("editor", "e1")
    ~> /\ part = "payment" => Payment!Updated("page")
       /\ part = "tabs" => Sessions!Answered("t1")
       /\ part = "site" => Site!Stored("editor", "e1")
=============================================================================
