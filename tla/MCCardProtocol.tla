--------------------------- MODULE MCCardProtocol ---------------------------
(* The three contracts and the NFT items together, on two cards.           *)
EXTENDS CardProtocol, TLC

CONSTANTS adm, alice, bob, locks, res, settle, hub, risk, lend, col7, col8,
          elsewhere, n1, n2, d1

MCAddress == {adm, alice, bob, locks, res, settle, hub, risk, lend, col7, col8}
MCDepositAmount == (d1 :> 1)
MCInitialOwner == [n \in NFT |-> alice]
MCItemCollection == [n \in NFT |-> col7]
=============================================================================
