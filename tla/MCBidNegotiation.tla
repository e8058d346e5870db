-------------------------- MODULE MCBidNegotiation --------------------------
(* Small instances of BidNegotiation: one poster, one or two bidders, one  *)
(* or two jobs.                                                            *)
EXTENDS BidNegotiation, TLC

CONSTANTS poster, bidder, other, job, job2

OnePoster == [j \in Jobs |-> poster]
TwoPosters == [j \in Jobs |-> IF j = job THEN poster ELSE other]
OwnNumber == [j \in Jobs |-> IF j = job THEN 0 ELSE 1]
Bidders == Permutations({bidder, other})
SameNumber == [j \in Jobs |-> 0]
=============================================================================
