-------------------------------- MODULE Parts --------------------------------
(***************************************************************************)
(* The parts of the store that share no rows, side by side for TLC.  Each  *)
(* behaviour is one of one part, and the variables x1, x2, ... stand for   *)
(* the variables of that part, in the order its module declares them.      *)
(***************************************************************************)
VARIABLES
    part, x1, x2, x3, x4, x5, x6, x7, x8, x9, x10, x11, x12, x13, x14, x15, x16,
    x17, x18

CONSTANT None   \* nothing; also the value of what a part does not use

from18 == <<x18>>
from17 == <<x17, from18>>
from16 == <<x16, from17>>
from15 == <<x15, from16>>
from14 == <<x14, from15>>
from13 == <<x13, from14>>
from12 == <<x12, from13>>
from11 == <<x11, from12>>
from10 == <<x10, from11>>
from9 == <<x9, from10>>
from8 == <<x8, from9>>
from7 == <<x7, from8>>
from6 == <<x6, from7>>
from5 == <<x5, from6>>
from4 == <<x4, from5>>
from3 == <<x3, from4>>
from1 == <<x1, x2, from3>>
all == <<part, from1>>

Off18 == x18 = None
Off17 == x17 = None /\ Off18
Off16 == x16 = None /\ Off17
Off15 == x15 = None /\ Off16
Off14 == x14 = None /\ Off15
Off13 == x13 = None /\ Off14
Off12 == x12 = None /\ Off13
Off11 == x11 = None /\ Off12
Off10 == x10 = None /\ Off11
Off9 == x9 = None /\ Off10
Off8 == x8 = None /\ Off9
Off7 == x7 = None /\ Off8
Off6 == x6 = None /\ Off7
Off5 == x5 = None /\ Off6
Off4 == x4 = None /\ Off5
Off3 == x3 = None /\ Off4
Off1 == x1 = None /\ x2 = None /\ Off3
=============================================================================
