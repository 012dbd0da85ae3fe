----------------------------- MODULE MCBackOffice -----------------------------
(* Two accounts under an asset and a liability, a posting of a number or of *)
(* NaN, and a listed entity spelled in two ways.                            *)
EXTENDS BackOffice, TLC

CONSTANTS j1, j2, a1, a2, c1, c2

MCCodes == {"OPERATING", "INSTITUTION_LIABILITY"}
MCAssets == {"OPERATING"}

MCUpper == ("BLOCKED_CORP" :> "BLOCKED_CORP") @@ ("blocked_corp" :> "BLOCKED_CORP")
              @@ ("PEP_PERSON_1" :> "PEP_PERSON_1")

Symmetry == Permutations({j1, j2}) \cup Permutations({a1, a2})
                \cup Permutations({c1, c2})

===============================================================================
