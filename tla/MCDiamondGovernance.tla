------------------------ MODULE MCDiamondGovernance ------------------------
(* Two signers, one resolver, one verifier, one Diamond, two wallets.      *)
EXTENDS DiamondGovernance, TLC

CONSTANTS dep, sig1, sig2, res, ver, idx, reg, alice, bob, d1, d2, good, bad

MCAddress == {dep, sig1, sig2, res, ver, idx, reg, alice, bob}
MCSignerSets == {{sig1, sig2}}
MCCodeOf == (res :> good) @@ (ver :> good)
MCFirstOwner == [n \in NFT |-> alice]
=============================================================================
