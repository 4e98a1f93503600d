------------------------- MODULE MCIndexerDatabase -------------------------
(* A small instance of IndexerDatabase: two cards and five transactions.   *)
(* FirstChange and SecondChange set the state of one card with log indexes *)
(* 1 and 0, the nameless two came without a hash.                          *)
EXTENDS IndexerDatabase

CONSTANTS a, b

Transfer(S) == [kind |-> "transfer", nfts |-> S, value |-> 0]
StateChange(n, v) == [kind |-> "state", nfts |-> {n}, value |-> v]
OwnerChange(n, o) == [kind |-> "owner", nfts |-> {n}, value |-> o]
Period(v) == [kind |-> "period", nfts |-> {}, value |-> v]

Logs(tx, events) ==
  [i \in DOMAIN events |-> [tx |-> tx, log |-> i - 1, event |-> events[i]]]

FirstChange == Logs("t1", <<Transfer({a, b}), StateChange(a, 1)>>)
SecondChange == Logs("t2", <<StateChange(a, 2), Period(1)>>)
NewOwners == Logs("t3", <<OwnerChange(a, "x"), OwnerChange(a, "y")>>)
Nameless == Logs("", <<StateChange(b, 1), Period(2)>>)
AlsoNameless == Logs("", <<StateChange(b, 2)>>)

SmallContents ==
  {<<>>, SecondChange, NewOwners,
   FirstChange \o SecondChange, NewOwners \o FirstChange, Nameless \o AlsoNameless}

SmallEvents == UNION {{c[i].event : i \in DOMAIN c} : c \in SmallContents}
SmallTransactions == UNION {{c[i].tx : i \in DOMAIN c} : c \in SmallContents}
TwoCards == {a, b}
=============================================================================
