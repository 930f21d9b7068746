--------------------------- MODULE MCIdentityTier ---------------------------
(* Instances of IdentityTier for TLC: a visitor and the same device after its *)
(* cookies were wiped, and a bounded number of jobs, requests and captures.    *)
EXTENDS IdentityTier, Integers, FiniteSets, TLC

CONSTANTS root, returning, MaxJobs, MaxRequests, MaxCaptured

VARIABLES begun, asked      \* jobs and requests so far

MCSvid == [v \in Visitors |-> IF v = returning THEN root ELSE None]
MCSameDevice == {<<root, returning>>, <<returning, root>>}

\* Addresses are interchangeable, and so are resolvers.
MCSymmetry == Permutations(Addresses) \union Permutations(Resolvers)

MCInit == Init /\ begun = 0 /\ asked = 0

MCBegin ==
    /\ begun < MaxJobs
    /\ \E r \in Resolvers : BeginJob(r)
    /\ begun' = begun + 1
    /\ UNCHANGED asked

MCAsk ==
    /\ asked < MaxRequests
    /\ \E o \in Owners : BeginRequest(o)
    /\ asked' = asked + 1
    /\ UNCHANGED begun

MCStep ==
    /\ \/ \E r \in Resolvers : JobStep(r)
       \/ \E o \in Owners : RequestStep(o)
       \/ /\ Cardinality(captured) < MaxCaptured
          /\ \E v \in Visitors, a \in Addresses : Capture(v, a)
       \/ \E v \in Visitors : Revive(v)
       \/ Reset
    /\ UNCHANGED <<begun, asked>>

MCSpec == MCInit /\ [][MCBegin \/ MCAsk \/ MCStep]_<<vars, begun, asked>>
=============================================================================
