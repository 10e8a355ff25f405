----------------------------- MODULE MCSession ------------------------------
(***************************************************************************)
(* Small instances of Session.                                             *)
(***************************************************************************)
EXTENDS Session, TLC

CONSTANTS m1, m2, m3, m4, f1, f2

MessageSymmetry == Permutations({m1, m2})

FilterSymmetry == Permutations({f1, f2})

NoRoutes == {}

NoInbound == {}

OfferBoth == {<<m1, 2>>, <<m2, 2>>}

OfferThree == {<<m1, 2>>, <<m2, 2>>, <<m3, 1>>}

OfferMixed == {<<m1, 1>>, <<m2, 2>>}
=============================================================================
