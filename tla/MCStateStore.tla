---------------------------- MODULE MCStateStore ----------------------------
\* The instances TLC checks: three updates of one store, of two, or of three.
EXTENDS StateStore, TLC

CONSTANTS s1, s2, s3, o1, o2, o3

OneStore    == [o \in Ops |-> s1]
TwoStores   == (o1 :> s1) @@ (o2 :> s1) @@ (o3 :> s2)
ThreeStores == (o1 :> s1) @@ (o2 :> s2) @@ (o3 :> s3)
=============================================================================
