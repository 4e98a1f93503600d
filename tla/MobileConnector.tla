-------------------------- MODULE MobileConnector --------------------------
(***************************************************************************)
(* mobile-app: MobileTonConnectConnector over a secure store. A call of    *)
(* the store takes effect when it is made and its caller continues later,  *)
(* the callers in the order of their calls (InMemorySecureStore; a         *)
(* key-chain that completes calls in order behaves alike). Nothing keeps   *)
(* the app from calling the connector again in between.                    *)
(***************************************************************************)
EXTENDS Naturals, Sequences

CONSTANTS WalletApp,    \* wallets that may answer, each with its address
          BadReply,     \* a reply whose address is not valid
          MaxWaiting,   \* calls in progress at once
          nothing       \* absent

VARIABLES live,         \* the session in memory
          kept,         \* the entry of the store
          waiting,      \* continuations of calls in progress, oldest first
          lastCall      \* the call made last, of those that connect or disconnect

connectorVars == <<live, kept, waiting, lastCall>>

Off == [status |-> "disconnected", wallet |-> nothing]
Waiting == [status |-> "pending", wallet |-> nothing]
On(w) == [status |-> "connected", wallet |-> w]
Unreadable == [status |-> "unreadable", wallet |-> nothing]

(* The constructor, on whatever an earlier run of the app left behind.     *)
ConnectorInit ==
  /\ live = Off
  /\ kept \in {nothing, Unreadable} \cup {On(w) : w \in WalletApp}
  /\ waiting = <<>>
  /\ lastCall = nothing

Await(k) == Len(waiting) < MaxWaiting /\ waiting' = Append(waiting, k)

restore ==
  /\ Await([step |-> "restore", got |-> kept])
  /\ UNCHANGED <<live, kept, lastCall>>

beginConnect ==
  /\ live' = Waiting
  /\ UNCHANGED <<kept, waiting, lastCall>>

(* An invalid address is refused before anything is stored.                *)
finishConnect(w) ==
  /\ w # BadReply
  /\ kept' = On(w)
  /\ Await([step |-> "finish", got |-> On(w)])
  /\ lastCall' = On(w)
  /\ UNCHANGED live

ClearSessionFirst ==
  /\ kept' = nothing
  /\ live' = Off
  /\ Await([step |-> "dropped", got |-> nothing])
  /\ lastCall' = Off

disconnectSession ==
  /\ kept' = nothing
  /\ Await([step |-> "disconnect", got |-> nothing])
  /\ lastCall' = Off
  /\ UNCHANGED live

(* The oldest call continues: setSession, or for restore what it read,     *)
(* an entry that cannot be parsed being deleted.                           *)
Continue ==
  /\ waiting # <<>>
  /\ LET k == Head(waiting) IN
     /\ live' = CASE k.step = "finish" -> k.got
                  [] k.step = "disconnect" -> Off
                  [] k.step = "restore" /\ k.got # nothing /\ k.got # Unreadable -> k.got
                  [] OTHER -> live
     /\ IF k.step = "restore" /\ k.got = Unreadable
          THEN /\ kept' = nothing
               /\ waiting' = Append(Tail(waiting), [step |-> "dropped", got |-> nothing])
          ELSE waiting' = Tail(waiting) /\ UNCHANGED kept
  /\ UNCHANGED lastCall

(* The app is killed and started again.                                    *)
Relaunch ==
  /\ live' = Off /\ waiting' = <<>> /\ lastCall' = nothing
  /\ UNCHANGED kept

ConnectorNext ==
  \/ restore \/ beginConnect \/ disconnectSession \/ Continue \/ Relaunch
  \/ \E w \in WalletApp \cup {BadReply} : finishConnect(w)

ConnectorSpec == ConnectorInit /\ [][ConnectorNext]_connectorVars

-----------------------------------------------------------------------------
Settled == waiting = <<>> /\ live # Waiting

(* Once every call has ended, the session is the one asked for last:       *)
(* a disconnect is not undone by a restore or a connection begun before    *)
(* it, and leaves nothing in the store to come back from                   *)
(* (MobileTonConnectConnector.finishConnect, disconnect and restore).      *)
LastCallWins ==
  Settled /\ lastCall # nothing =>
    live = lastCall /\ (lastCall = Off => kept = nothing)

(* A connected session is the one in the store, so that it is there after  *)
(* a restart. Refuted: restore deletes an unreadable entry without looking *)
(* again, and a connection may have stored a good one since.               *)
SessionSurvivesRestart ==
  Settled /\ live.status = "connected" => kept = live
=============================================================================
