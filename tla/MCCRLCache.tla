----------------------------- MODULE MCCRLCache -----------------------------
(***************************************************************************)
(* A small world for CRLCache.  Intermediates A and B are two issuers with *)
(* one key, and their leaves share a distribution point.  Chain C has      *)
(* distribution points at both levels, and two of them for its leaf.       *)
(***************************************************************************)
EXTENDS CRLCache, TLC

MCRawSubject == [c \in Certs |-> c]
MCPublicKey ==
    [c \in Certs |-> CASE c = "root" -> "kR"
                         [] c \in {"interA", "interB"} -> "kAB"
                         [] c = "interC" -> "kC"
                         [] c = "stranger" -> "kS"
                         [] OTHER -> "kL"]
MCSignedWith ==
    [c \in Certs |-> CASE c = "leafAB" -> "kAB"
                         [] c = "leafC" -> "kC"
                         [] c = "stranger" -> "kS"
                         [] OTHER -> "kR"]
MCNotBefore == [c \in Certs |-> 0]
MCNotAfter == [c \in Certs |-> IF c = "leafC" THEN 2 ELSE 9]
MCCRLDistributionPoints ==
    [c \in Certs |-> CASE c \in {"interC", "leafAB", "stranger"} -> <<"u1">>
                         [] c = "leafC" -> <<"u2", "u1">>
                         [] OTHER -> <<>>]

Token(i, l) == [x5c |-> TRUE, root |-> "root", intermediate |-> i, leaf |-> l]
SharedKeyTokens == { Token("interA", "leafAB"), Token("interB", "leafAB") }
ProgressTokens == { Token("interA", "leafAB"), Token("interA", "stranger") }
TokenC == Token("interC", "leafC")
ChainTokens ==
    { TokenC, [TokenC EXCEPT !.x5c = FALSE], [TokenC EXCEPT !.root = "stranger"],
      Token("stranger", "stranger"), Token("interC", "stranger") }

MCRawIssuer ==
    [c \in CRLs |-> CASE c = "crlR" -> "root" [] c = "crlA" -> "interA"
                      [] c = "shortB" -> "interB" [] OTHER -> "interC"]
MCCRLSignedWith ==
    [c \in CRLs |-> CASE c = "crlR" -> "kR" [] c \in {"crlA", "shortB"} -> "kAB" [] OTHER -> "kC"]
MCNextUpdate ==
    [c \in CRLs |-> CASE c = "noHorizon" -> 0 [] c = "shortB" -> 2 [] OTHER -> 9]

NotFound == { {"error", "ErrNotFound"} }
Unreachable == { {"error", "ErrHTTPFetch", "context.DeadlineExceeded"} }

Symmetry == Permutations(Requests)
=============================================================================
