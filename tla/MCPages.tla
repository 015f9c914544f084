------------------------------- MODULE MCPages -------------------------------
(***************************************************************************)
(* Small instances of the pages of the shop and of the administration,     *)
(* each with the handlers of the API that serve it.  The visual editors of *)
(* the site and the checkout have the variables of their modules.         *)
(***************************************************************************)
EXTENDS Parts, SiteContent, CheckoutPage, TLC

CONSTANTS a, b, x, y, z

nothingOffered == {[mpCard |-> FALSE, mpLink |-> FALSE, stripe |-> FALSE]}
cardsOffered == {[mpCard |-> TRUE, mpLink |-> TRUE, stripe |-> FALSE]}
offered == nothingOffered \cup cardsOffered
allChoices == {"SHIPPING", "LOCAL_DELIVERY", "STORE_PICKUP", "CARD", "PAYMENT_LINK",
               "BANK_TRANSFER", "CASH"}
fiveProducts == [catalogSection |-> {1, 2, 3, 5}, catalogLine |-> {1, 3, 5}, house |-> {1, 2, 4, 5}]
sixProducts == [catalogSection |-> 1 .. 6, catalogLine |-> {1, 2, 4, 5, 6}, house |-> {1, 2, 4, 6}]
links == {{}, {"catalogSection"}, {"catalogLine", "house"}}

SiteServed == INSTANCE SiteContent WITH
    Editors <- {a}, Presses <- 1, Faults <- 1, Loads <- 1, Renderings <- 1,
    Outages <- 1
Document == INSTANCE SiteContentRules WITH
    stored <- x1, served <- x2, MaxText <- 1, MaxUrl <- 2, MaxNavigation <- 2,
    MaxSections <- 2, Types <- {"t1", "t2"}, Names <- {"n1", "n2"},
    Growth <- 1
Library == INSTANCE MediaLibrary WITH
    asset <- x1, object <- x2, upload <- x3, listed <- x4, inUse <- x5,
    archives <- x6, Tabs <- {a, b}, Files <- {x, y, z}, PageSize <- 2,
    Archives <- 2
CardCheckout == INSTANCE CheckoutPage WITH
    Tokens <- {"cart"}, Addresses <- {}, Configurations <- cardsOffered
CheckoutSteps == INSTANCE CheckoutPage WITH
    Tokens <- {"cart"}, Configurations <- nothingOffered
SecondCart == INSTANCE CheckoutPage WITH
    Tokens <- {x, y}, Addresses <- {}, Configurations <- nothingOffered,
    Tried <- {"CASH"}
Payment == INSTANCE PaymentPage WITH
    order <- x1, provider <- x2, intent <- x3, charged <- x4, applied <- x5,
    page <- x6, held <- x7, quotes <- x8, Pages <- {"page"}, Fees <- {1,2},
    Quotes <- 2, Answers <- 1
Tracking == INSTANCE OrderTracking WITH
    order <- x1, proofs <- x2, bucket <- x3, tab <- x4, desk <- x5,
    faults <- x6, Tabs <- {"tab"}, Desks <- {a, b}, Files <- {x}, Shown <- 3,
    Loads <- 1, Faults <- 1
AddressList == INSTANCE AddressBook WITH
    isDefault <- x1, newest <- x2, found <- x3, transaction <- x4,
    overtaken <- x5, crossed <- x6, Requests <- {a, b}, Ids <- {x, y, z},
    Flags <- {TRUE, FALSE, None}
Favourites == INSTANCE Wishlist WITH
    row <- x1, active <- x2, heart <- x3, list <- x4, calls <- x5,
    spent <- x6, Cards <- {"card"}, Details <- {"page"}, Lists <- {"account"},
    Presses <- 3, Faults <- 1, Withdrawals <- 1
OneHeart == INSTANCE Wishlist WITH
    row <- x1, active <- x2, heart <- x3, list <- x4, calls <- x5,
    spent <- x6, Cards <- {"card"}, Details <- {}, Lists <- {}, Presses <- 5,
    Faults <- 0, Withdrawals <- 1
Bell == INSTANCE AdminNotifications WITH
    quote <- x1, row <- x2, feed <- x3, firstLoad <- x4, notified <- x5,
    polls <- x6, marks <- x7, announced <- x8, count <- x9,
    Orders <- {"order"}, Slots <- {a, b}, MaxChanges <- 1, MaxFailures <- 1,
    MaxReloads <- 1, MaxMarkAll <- 1
TwoOrders == INSTANCE AdminNotifications WITH
    quote <- x1, row <- x2, feed <- x3, firstLoad <- x4, notified <- x5,
    polls <- x6, marks <- x7, announced <- x8, count <- x9, Orders <- {x, y},
    Slots <- {1}, MaxChanges <- 0, MaxFailures <- 0, MaxReloads <- 1,
    MaxMarkAll <- 0
Shelf == INSTANCE Catalogue WITH
    active <- x1, filters <- x2, shown <- x3, nextCursor <- x4, asked <- x5,
    more <- x6, wanted <- x7, told <- x8, first <- x9, changes <- x10,
    followed <- x11, failures <- x12, Products <- 1 .. 5,
    AtFirst <- {1, 2, 3}, Has <- fiveProducts, Links <- links, Take <- 1,
    Patient <- TRUE, MaxChanges <- 2, MaxFollowed <- 0, MaxFailures <- 1
LongShelf == INSTANCE Catalogue WITH
    active <- x1, filters <- x2, shown <- x3, nextCursor <- x4, asked <- x5,
    more <- x6, wanted <- x7, told <- x8, first <- x9, changes <- x10,
    followed <- x11, failures <- x12, Products <- 1 .. 6, AtFirst <- 1 .. 5,
    Has <- sixProducts, Links <- links, Take <- 2, Patient <- TRUE,
    MaxChanges <- 2, MaxFollowed <- 1, MaxFailures <- 1
NewProducts == INSTANCE NewProduct WITH
    products <- x1, requests <- x2, entries <- x3, sku <- x4, slug <- x5,
    skuCheck <- x6, timeout <- x7, queries <- x8, saving <- x9, closed <- x10,
    creating <- x11, typed <- x12, submits <- x13, lost <- x14,
    Employees <- {a, b}, Skus <- {"s1", "old"}, Slugs <- {"g1", "g2"},
    Names <- {}, Taken <- {"old"}, Before <- [s \in {"old"} |-> "before"], MaxTyped <- 1,
    MaxSubmits <- 2, MaxLost <- 1
NewProductForm == INSTANCE NewProduct WITH
    products <- x1, requests <- x2, entries <- x3, sku <- x4, slug <- x5,
    skuCheck <- x6, timeout <- x7, queries <- x8, saving <- x9, closed <- x10,
    creating <- x11, typed <- x12, submits <- x13, lost <- x14,
    Employees <- {"employee"}, Skus <- {"s1", "s2", "old"}, Slugs <- {"g1"},
    Names <- {"brand"}, Taken <- {"old"}, Before <- [s \in {"old"} |-> "before"], MaxTyped <- 3,
    MaxSubmits <- 2, MaxLost <- 1
Gallery == INSTANCE ProductImages WITH
    images <- x1, text <- x2, window <- x3, upload <- x4, request <- x5,
    photos <- x6, removed <- x7, saves <- x8, failures <- x9,
    Windows <- {a, b}, MaxImages <- 2, AtFirst <- 1, Photos <- {11, 12},
    Patient <- FALSE, MaxSaves <- 1, MaxFailures <- 1
PatientGallery == INSTANCE ProductImages WITH
    images <- x1, text <- x2, window <- x3, upload <- x4, request <- x5,
    photos <- x6, removed <- x7, saves <- x8, failures <- x9,
    Windows <- {"window"}, MaxImages <- 3, AtFirst <- 2,
    Photos <- {11, 12, 13}, Patient <- TRUE, MaxSaves <- 1, MaxFailures <- 1
StockEntered == INSTANCE StockForm WITH
    level <- x1, units <- x2, window <- x3, pending <- x4, failed <- x5,
    count <- x6, Employees <- {"employee"}, Variants <- {x, y},
    Kinds <- {"product", "variant"}, AtFirst <- 2, Counts <- {-1},
    Thresholds <- {1, 2}, MaxOpened <- 2, MaxSales <- 1, MaxFailures <- 1
TextsEntered == INSTANCE StockForm WITH
    level <- x1, units <- x2, window <- x3, pending <- x4, failed <- x5,
    count <- x6, Employees <- {a, b}, Variants <- {x, y},
    Kinds <- {"product"}, AtFirst <- 2, Counts <- {}, Thresholds <- {},
    MaxOpened <- 3, MaxSales <- 3, MaxFailures <- 1
StockAlerts == INSTANCE InventoryAlerts WITH
    stock <- x1, alert <- x2, sent <- x3, scan <- x4, day <- x5,
    changes <- x6, failures <- x7, Replicas <- {a, b}, Levels <- {"level"},
    Alerts <- {x, y}, Most <- 2, Threshold <- 1, Limit <- 2, Days <- 1,
    Failures <- 1, Changes <- 3

\* Where a behaviour of a part begins, and what its steps are.
OtherInit ==
    \/ part \in {"site", "site served", "checkout by card"} /\ Off1
    \/ part = "document" /\ Document!Init /\ Off3
    \/ part = "images" /\ Library!Init /\ Off7
    \/ part = "payment" /\ Payment!Init /\ Off9
    \/ part = "tracking" /\ Tracking!Init /\ Off7
    \/ part = "addresses" /\ AddressList!Init /\ Off7
    \/ part = "favourites" /\ Favourites!Init /\ Off7
    \/ part = "one heart" /\ OneHeart!Init /\ Off7
    \/ part = "bell" /\ Bell!Init /\ Off10
    \/ part = "two orders" /\ TwoOrders!Init /\ Off10
    \/ part = "catalogue" /\ Shelf!Init /\ Off13
    \/ part = "long catalogue" /\ LongShelf!Init /\ Off13
    \/ part = "new products" /\ NewProducts!Init /\ Off15
    \/ part = "new product" /\ NewProductForm!Init /\ Off15
    \/ part = "photos" /\ Gallery!Init /\ Off10
    \/ part = "patient photos" /\ PatientGallery!Init /\ Off10
    \/ part = "stock" /\ StockEntered!Init /\ Off7
    \/ part = "texts" /\ TextsEntered!Init /\ Off7
    \/ part = "alerts" /\ StockAlerts!Init /\ Off8

PagesInit ==
    /\ Init
    /\ \/ part = "checkout" /\ CheckoutSteps!CheckoutInit /\ Off1
       \/ part = "second cart" /\ SecondCart!CheckoutInit /\ Off1
       \/ CardCheckout!CheckoutInit /\ OtherInit

OwnStep ==
    \/ part = "site" /\ Next /\ UNCHANGED checkoutVars
    \/ part = "site served" /\ SiteServed!Next /\ UNCHANGED checkoutVars
    \/ part = "checkout by card" /\ CardCheckout!CheckoutNext /\ UNCHANGED contentVars
    \/ part = "checkout" /\ CheckoutSteps!CheckoutNext /\ UNCHANGED contentVars
    \/ part = "second cart" /\ SecondCart!CheckoutNext /\ UNCHANGED contentVars

OtherStep ==
    \/ part = "document" /\ Document!Next /\ UNCHANGED from3
    \/ part = "images" /\ Library!Next /\ UNCHANGED from7
    \/ part = "payment" /\ Payment!Next /\ UNCHANGED from9
    \/ part = "tracking" /\ Tracking!Next /\ UNCHANGED from7
    \/ part = "addresses" /\ AddressList!Next /\ UNCHANGED from7
    \/ part = "favourites" /\ Favourites!Next /\ UNCHANGED from7
    \/ part = "one heart" /\ OneHeart!Next /\ UNCHANGED from7
    \/ part = "bell" /\ Bell!Next /\ UNCHANGED from10
    \/ part = "two orders" /\ TwoOrders!Next /\ UNCHANGED from10
    \/ part = "catalogue" /\ Shelf!Next /\ UNCHANGED from13
    \/ part = "long catalogue" /\ LongShelf!Next /\ UNCHANGED from13
    \/ part = "new products" /\ NewProducts!Next /\ UNCHANGED from15
    \/ part = "new product" /\ NewProductForm!Next /\ UNCHANGED from15
    \/ part = "photos" /\ Gallery!Next /\ UNCHANGED from10
    \/ part = "patient photos" /\ PatientGallery!Next /\ UNCHANGED from10
    \/ part = "stock" /\ StockEntered!Next /\ UNCHANGED from7
    \/ part = "texts" /\ TextsEntered!Next /\ UNCHANGED from7
    \/ part = "alerts" /\ StockAlerts!Next /\ UNCHANGED from8

PagesNext ==
    \/ OwnStep /\ UNCHANGED all
    \/ OtherStep /\ UNCHANGED <<part, contentVars, checkoutVars>>

allPages == <<all, contentVars, checkoutVars>>
PagesSpec == PagesInit /\ [][PagesNext]_allPages

ASSUME PagesAssumption ==
    /\ SiteContentAssumption /\ SiteServed!SiteContentAssumption
    /\ Document!RulesAssumption /\ Library!MediaAssumption
    /\ PageAssumption /\ CheckoutSteps!PageAssumption /\ CardCheckout!PageAssumption
    /\ SecondCart!PageAssumption
    /\ Payment!PaymentPageAssumption /\ Tracking!OrderTrackingAssumption
    /\ AddressList!AddressAssumption
    /\ Favourites!WishlistAssumption /\ OneHeart!WishlistAssumption
    /\ StockAlerts!AlertsAssumption
    /\ NewProducts!NewProductAssumption /\ NewProductForm!NewProductAssumption
    /\ Shelf!ProductsAreNumbered /\ Shelf!TakeIsPositive
    /\ LongShelf!ProductsAreNumbered /\ LongShelf!TakeIsPositive
    /\ Gallery!ImagesAssumption /\ PatientGallery!ImagesAssumption

-----------------------------------------------------------------------------
(* Properties: those of SiteContent and CheckoutPage as they are, for what *)
(* they are about rests in all other parts, and those of the other modules *)
(* for their part.                                                         *)

TypesOK ==
    /\ TypeOK /\ CheckoutTypesOK
    /\ part = "images" => Library!TypeOK
    /\ part = "payment" => Payment!TypeOK
    /\ part = "tracking" => Tracking!TypeOK
    /\ part = "addresses" => AddressList!TypeOK
    /\ part = "favourites" => Favourites!TypeOK
    /\ part = "one heart" => OneHeart!TypeOK
    /\ part = "bell" => Bell!TypeOK
    /\ part = "two orders" => TwoOrders!TypeOK
    /\ part = "catalogue" => Shelf!TypeOK
    /\ part = "long catalogue" => LongShelf!TypeOK
    /\ part = "new products" => NewProducts!TypeOK
    /\ part = "new product" => NewProductForm!TypeOK
    /\ part = "photos" => Gallery!TypeOK
    /\ part = "patient photos" => PatientGallery!TypeOK
    /\ part = "stock" => StockEntered!TypeOK
    /\ part = "texts" => TextsEntered!TypeOK
    /\ part = "alerts" => StockAlerts!TypeOK

\* What is published is served as it was saved: the rules change what they wrote no
\* further, and refuse it only for an address that URL.toString() made too long; it
\* leads to no forbidden address, and the images it shows are in the bucket.
PublishedIsWhole ==
    /\ part = "document" => Document!ServedAsStored /\ Document!ServedIsSafe
    /\ part = "images" => Library!UsedImagesExist

\* What a page tells is so: a payment told as received is, an approved proof is
\* of a paid order and has its file, a heart that answered agrees with the row,
\* the products shown match the filters the customer chose last, and a customer
\* who loads all pages of a list misses none of the products that were published
\* when the first was served (the cursor of listProducts).
ToldIsTrue ==
    /\ part = "payment" => Payment!ToldPaidIsPaid
    /\ part = "tracking" => Tracking!ApprovedIsPaid /\ Tracking!ProofHasFile
    /\ part = "one heart" => OneHeart!HeartAgrees
    /\ part = "catalogue" => Shelf!ShownIsWanted /\ Shelf!NoneMissed
    /\ part = "long catalogue" => LongShelf!NoneMissed

\* What is settled stays settled, whatever older answers and requests are still
\* under way: a deleted address does not come back, a change of the addresses that
\* no other overtook moves the default one and does not lose it, a proof is reviewed
\* once and a closed order stays closed, an alert never opens again, only
\* notifications that were seen are read, a page shown again has the selection of
\* before, and a quote does not leave the screen.
SettledStays ==
    [][/\ part = "addresses" => AddressList!NothingComesBack /\ AddressList!DefaultOnlyMoves
       /\ part = "tracking" => Tracking!ReviewedOnce /\ Tracking!ClosedStays
       /\ part = "alerts" => StockAlerts!LifeCycle
       /\ part = "two orders" => TwoOrders!OnlyShownAreRead
       /\ ReloadKeepsSelection
       /\ part = "payment" => Payment!QuoteStays]_<<all, checkoutVars>>

\* What employees enter arrives once and whole: no product is overwritten or
\* created twice by one form, a SKU that is being checked is answered, removed
\* photos stay removed, a product has eight at most and its cover first, units
\* that were sold do not come back with a change of the texts, a customer has one
\* default address at most until a change was committed that another had overtaken,
\* and a new order is announced once.
EnteredOnce ==
    /\ part = "new products" => NewProducts!NeverOverwritten
    /\ part = "new product" => /\ NewProductForm!NeverOverwritten /\ NewProductForm!OncePerForm
                               /\ NewProductForm!CheckingEnds
    /\ part = "photos" => Gallery!AtMostEight /\ Gallery!CoverIsFirst
    /\ part = "patient photos" => PatientGallery!RemovedStaysRemoved
    /\ part = "texts" => TextsEntered!UnitsAreReal
    /\ part = "addresses" => AddressList!OneDefaultUntilCrossed
    /\ part = "bell" => Bell!AnnouncedOnce

\* Units that were sold are not offered again by a window of the stock that was
\* open meanwhile ('reserva de inventario para evitar sobreventa',
\* docs/REQUIREMENTS.md:22).
UnitsAreReal == part = "stock" => StockEntered!UnitsAreReal

Sym == Permutations({a, b}) \cup Permutations({x, y, z})
=============================================================================
