----------------------------- MODULE MCServices ------------------------------
(***************************************************************************)
(* Small instances of the services of the API that share no rows with each *)
(* other: mail, sessions, carts, promotions, prices and the deployment.    *)
(* Mail, sessions, the deployment and one of the carts have the variables  *)
(* of their modules.                                                       *)
(***************************************************************************)
EXTENDS Parts, Outbox, CustomerSessions, Deployment, Carts, TLC

CONSTANTS a, b, x, y, z

kinds == [e1 |-> "CUSTOMER_PASSWORD_RESET_REQUESTED",
          e2 |-> "CUSTOMER_EMAIL_VERIFICATION_REQUESTED"]
browsers == [t \in Tabs |-> CASE t = "t1" -> "b1" [] t = "t2" -> "b2" [] OTHER -> "browser"]

lineOf(v) == IF v = "classic" THEN "CATALOG" ELSE "FIXED"
brandOf(v) == IF v = "premium" THEN "A" ELSE "B"
isDraft(v) == v = "draft"
Input(direction, scope, of, drafts, fixed) ==
    [direction |-> direction, percentage |-> 5000, scope |-> scope, of |-> of,
     includeDrafts |-> drafts, includeFixedPolicies |-> fixed]
\* The halves of these inputs that doubles put below: 57.49999999999999,
\* 126.49999999999999, 502.49999999999994 and 69996.49999999999.
droppedHalves ==
    {<<50, 11500, 1>>, <<110, 11500, 1>>, <<500, 10050, 1>>, <<35000, 19999, 1>>}
inputs == {Input("INCREASE", "ALL", None, TRUE, FALSE), Input("DECREASE", "ALL", None, FALSE, TRUE),
           Input("DECREASE", "BRAND", "B", TRUE, TRUE), Input("INCREASE", "LINE", "FIXED", FALSE, TRUE)}
campaignFields == [requiresCode : BOOLEAN] \cup [code : {"ven", "blank"}] \cup [endsAt : {None, 1}]
batchOf(c) == IF c = "c1" THEN 1 ELSE 2
stockOf(c) == IF c = "c1" THEN 1 ELSE 0

QuietMail == INSTANCE Outbox WITH Resends <- 0
MailAskedAgain == INSTANCE Outbox WITH Batch <- 1, Cooldown <- 1, MaxDelay <- 1
NewCustomer == INSTANCE CustomerSessions WITH Registered <- FALSE
OneBrowser == INSTANCE CustomerSessions WITH
    Tabs <- {a, b}, Browsers <- {"browser"}, Links <- {}, Resetters <- {},
    Registered <- FALSE, MaxPasswords <- 1
ForgottenPassword == INSTANCE CustomerSessions WITH
    Tabs <- {"t1", "t2"}, Browsers <- {"b1", "b2"}, MaxTokens <- 2
TwoCarts == INSTANCE Carts WITH
    cart <- x1, stored <- x2, signedIn <- x3, cartTab <- x4, request <- x5,
    failedCalls <- x6, added <- x7, CartIds <- {x, y}, CartTabs <- {a, b},
    Customers <- {"ana", "eva"}, Calls <- {1}, Stock <- 1, Failures <- 0
FailingCart == INSTANCE Carts WITH
    cart <- x1, stored <- x2, signedIn <- x3, cartTab <- x4, request <- x5,
    failedCalls <- x6, added <- x7, CartIds <- {x, y}, CartTabs <- {"tab"},
    Customers <- {"ana", "eva"}, Calls <- {1}, Stock <- 1, Failures <- 1
CampaignDesk == INSTANCE PromotionDesk WITH
    promotion <- x1, request <- x2, form <- x3, now <- x4, forms <- x5, sent <- x6,
    Employees <- {"employee"}, Requests <- {a, b}, Ids <- {x, y}, Slugs <- {"a", "b"},
    Typed <- {"ven", "VEN"}, Blank <- "blank",
    trimUpper <- [t \in {"ven", "VEN"} |-> "VEN"], Limits <- {}, Horizon <- 1,
    Entries <- [code : {"ven", "blank"}], Singles <- campaignFields, MaxForms <- 2, MaxChanges <- 3
Discounts == INSTANCE MCPromotionRules WITH
    running <- x1, cart <- x2, customer <- x3, Limit <- 3
PriceDesk == INSTANCE Prices WITH
    variant <- x1, policy <- x2, request <- x3, page <- x4, edits <- x5,
    faults <- x6, Employees <- {"employee"},
    Variants <- {"classic", "premium", "draft"}, Line <- lineOf,
    Brand <- brandOf, Draft <- isDraft, Inputs <- inputs, MaxPrice <- 4,
    Edits <- 1, Faults <- 1, Dropped <- droppedHalves
PriceEdits == INSTANCE Prices WITH
    variant <- x1, policy <- x2, request <- x3, page <- x4, edits <- x5,
    faults <- x6, Employees <- {"employee"},
    Variants <- {"classic", "premium"}, Line <- lineOf, Brand <- brandOf,
    Draft <- isDraft, Inputs <- inputs, MaxPrice <- 4, Edits <- 2, Faults <- 0,
    Dropped <- droppedHalves
Rounding == INSTANCE MCPriceAdjustment WITH
    price <- x1, direction <- x2, percentage <- x3, rounding <- x4,
    Prices <- {1, 49, 50, 99, 104, 110, 149, 250, 349, 500, 18000, 35000, 35400},
    Percentages <- {1, 50, 500, 1000, 1500, 1600, 5000, 9999, 20000},
    Dropped <- droppedHalves
\* Where a behaviour of a part begins, and what its steps are.
OtherInit ==
    \/ part = "two carts" /\ TwoCarts!CartsInit /\ Off8
    \/ part = "failing cart" /\ FailingCart!CartsInit /\ Off8
    \/ part = "campaigns" /\ CampaignDesk!Init /\ Off7
    \/ part = "discounts" /\ Discounts!Init /\ Off4
    \/ part = "prices" /\ PriceDesk!Init /\ Off7
    \/ part = "edited prices" /\ PriceEdits!Init /\ Off7
    \/ part = "rounding" /\ Rounding!Init /\ Off5

ServicesInit ==
    /\ OutboxInit /\ InitDeployment /\ CartsInit
    /\ \/ part \in {"mail", "resent mail", "reset", "deployment", "cart"} /\ Init /\ Off1
       \/ part = "tabs" /\ NewCustomer!Init /\ Off1
       \/ Init /\ OtherInit

OwnStep ==
    \/ part = "mail" /\ QuietMail!OutboxNext /\ UNCHANGED <<sessionVars, storeVars, cartVars>>
    \/ part = "resent mail" /\ MailAskedAgain!OutboxNext /\ UNCHANGED <<sessionVars, storeVars, cartVars>>
    \/ part = "tabs" /\ OneBrowser!Next /\ UNCHANGED <<outboxVars, storeVars, cartVars>>
    \/ part = "reset" /\ ForgottenPassword!Next /\ UNCHANGED <<outboxVars, storeVars, cartVars>>
    \/ part = "deployment" /\ DeployNext /\ UNCHANGED <<outboxVars, sessionVars, cartVars>>
    \/ part = "cart" /\ CartsNext /\ UNCHANGED <<outboxVars, sessionVars, storeVars>>

OtherStep ==
    \/ part = "two carts" /\ TwoCarts!CartsNext /\ UNCHANGED from8
    \/ part = "failing cart" /\ FailingCart!CartsNext /\ UNCHANGED from8
    \/ part = "campaigns" /\ CampaignDesk!Next /\ UNCHANGED from7
    \/ part = "discounts" /\ Discounts!Next /\ UNCHANGED from4
    \/ part = "prices" /\ PriceDesk!Next /\ UNCHANGED from7
    \/ part = "edited prices" /\ PriceEdits!Next /\ UNCHANGED from7
    \/ part = "rounding" /\ Rounding!Next /\ UNCHANGED from5

ServicesNext ==
    \/ OwnStep /\ UNCHANGED all
    \/ OtherStep /\ UNCHANGED <<part, outboxVars, sessionVars, storeVars, cartVars>>

allVars == <<all, outboxVars, sessionVars, storeVars, cartVars>>
ServicesSpec == ServicesInit /\ [][ServicesNext]_allVars

ASSUME ServicesAssumption ==
    /\ OutboxAssumption /\ SessionsAssumption
    /\ CartsAssumption /\ NamesAssumption
    /\ TwoCarts!CartsAssumption /\ TwoCarts!NamesAssumption
    /\ FailingCart!CartsAssumption /\ FailingCart!NamesAssumption
    /\ PriceDesk!PricesAssumption /\ PriceEdits!PricesAssumption
    /\ CampaignDesk!PromotionAssumption
    /\ SeedAssumption /\ DeploymentAssumption

-----------------------------------------------------------------------------
(* Properties: those of the modules, each for the part it is about.  For   *)
(* Outbox, CustomerSessions, Deployment and Carts they are the modules'    *)
(* own: EveryMailOnce, ExchangedOnce, NoSessionOutlivesReset, StoreIsKept  *)
(* and CartsAreKept.                                                       *)

TypesOK ==
    /\ RowsOK /\ TypeOK /\ StoreOK /\ CartsTypesOK
    /\ part = "two carts" => TwoCarts!CartsTypesOK
    /\ part = "failing cart" => FailingCart!CartsTypesOK
    /\ part = "campaigns" => CampaignDesk!TypeOK
    /\ part = "prices" => PriceDesk!TypeOK
    /\ part = "edited prices" => PriceEdits!TypeOK

\* A cart that has an owner keeps it, and a cart with something in it is found
\* again: no tab replaces it in the browser by an empty one.
CartsStayTheirOwners ==
    [][/\ OrderedByItsOwner /\ CartsPersist
       /\ part = "two carts" => TwoCarts!OrderedByItsOwner
       /\ part = "failing cart" => FailingCart!OrderedByItsOwner]_allVars

\* A change does what the employee saw and no more: an adjustment of prices
\* changes what is sold in its scope by the rule and nothing else, keeps the
\* order of the prices and no discount that is none; a change of a campaign
\* writes the fields it was sent; one more campaign takes nothing from a
\* customer; and a deployment opens the store only over a complete catalogue.
ChangesAreExact ==
    [][/\ part = "prices" => PriceDesk!AdjustsWhatIsSold
       /\ part = "edited prices" => PriceEdits!DiscountStays
       /\ part = "rounding" => Rounding!KeepsOrder
       /\ part = "campaigns" => CampaignDesk!NothingElseChanges
       /\ part = "discounts" => Discounts!MoreNeverCosts
       /\ ValidatedIsComplete]_allVars

\* What the shop shows a customer is what an order grants: a campaign shown as
\* automatic is a candidate without a code, a code shown finds its campaign and
\* no other, a form publishes one campaign, and the best combination the rules
\* allow is given (selectAppliedPromotions).
ShownIsGranted ==
    /\ part = "campaigns" => /\ CampaignDesk!ShownAsAutomaticApplies /\ CampaignDesk!ShownCodeApplies
                             /\ CampaignDesk!OncePerForm
    /\ part = "discounts" => /\ Discounts!NeverBelowZero /\ Discounts!BestIsGranted
                             /\ Discounts!ExclusiveOnce

\* Nothing is given away: whatever percentages, roundings and policies follow one
\* another, what is sold costs a cent at least and a fixed line has its price.
NothingIsFree ==
    /\ part = "rounding" => Rounding!AtLeastACent
    /\ part = "prices" => PriceDesk!FixedHasPrice

Sym == Permutations({a, b}) \cup Permutations({x, y})
=============================================================================
