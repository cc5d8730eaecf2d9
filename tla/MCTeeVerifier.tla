--------------------------- MODULE MCTeeVerifier ---------------------------
(***************************************************************************)
(* Small instances of TeeVerifier: responses with up to two defects, a     *)
(* cutover at id 2, ids up to one beyond the largest, environments with    *)
(* every variable set, unset or unparsable.                                *)
(***************************************************************************)
EXTENDS TeeVerifier

Ids == 1 .. 4
MCRelayHash ==
    [A |-> [id \in Ids |-> IF id <= 2 THEN 10 + id ELSE 0],
     B |-> [id \in Ids |-> IF id >= 2 /\ id <= 3 THEN 20 + id ELSE 0]]

Plain ==
    [ sourceID |-> "TEE", flareRPCURL |-> "url", commonValid |-> TRUE, relay |-> "A",
      cutoverRelay |-> None, cutoverEpoch |-> None, chainID |-> 14, teeAudience |-> None,
      allowTeeDebug |-> None, disableAttestationCheckE2E |-> None, allowPrivateNetworks |-> None ]
Cutover == [Plain EXCEPT !.cutoverRelay = "B", !.cutoverEpoch = 2]

Flags == {None, Garbage, TRUE, FALSE}
MCSettings ==
    { [Plain EXCEPT !.cutoverRelay = a, !.cutoverEpoch = e] :
          a \in {None, Garbage, "A", "B"}, e \in {None, Garbage, 0, 1, 2, 3, 4} }
    \cup { [Cutover EXCEPT !.allowTeeDebug = d, !.disableAttestationCheckE2E = e,
                           !.allowPrivateNetworks = p] : d, e, p \in Flags }
    \cup { [Cutover EXCEPT !.relay = a, !.chainID = c] :
               a \in {None, Garbage, "A", "B"}, c \in {None, Garbage, 0, 14} }
    \cup { [Plain EXCEPT !.sourceID = "XRP"], [Plain EXCEPT !.flareRPCURL = None],
           [Plain EXCEPT !.commonValid = FALSE], [Plain EXCEPT !.teeAudience = "other"] }

Response(defects, magic, i, l, hi, hl) ==
    [defects |-> defects, magicPass |-> magic,
     id |-> [initial |-> i, last |-> l], hash |-> [initial |-> hi, last |-> hl]]

Pairs == {{d, e} : d, e \in Defects} \cup {{}}

(***************************************************************************)
(* settings: every kind of environment, with a response of each kind they  *)
(* tell apart.  evidence: responses with up to two defects.  policies:     *)
(* every pair of ids on either side of the cutover, with the hash of       *)
(* either Relay, a foreign one or zero.  faults: every failure of the      *)
(* outside world, of a genuine response and of one whose token fails.      *)
(***************************************************************************)
MCEnvironments ==
    [ settings |-> MCSettings,
      evidence |-> {[Cutover EXCEPT !.allowTeeDebug = d] : d \in BOOLEAN}
                       \cup {[Cutover EXCEPT !.disableAttestationCheckE2E = TRUE]},
      policies |-> {Plain, Cutover},
      faults   |-> {Cutover} ]

MCResponses ==
    [ settings |-> {Response(d, FALSE, 2, 3, hi, hl) :
                       d \in {{}, {"debug"}, {"pkiToken"}}, hi \in {12, 22}, hl \in {0, 23}},
      evidence |-> {Response(d, m, 1, 3, 11, 23) : d \in Pairs, m \in BOOLEAN},
      policies |-> {Response({}, TRUE, i, l, hi, hl) :
                       i \in Ids, l \in Ids, hi \in {0, 11, 12, 22, 99}, hl \in {0, 12, 22, 23, 99}},
      faults   |-> {Response(d, FALSE, 1, 3, 11, 23) : d \in {{}, {"revoked"}}} ]

TwoFetchErrors == {{"error", "ErrHTTPFetch"}, {"error", "ErrNotFound"}}
MCFetchErrors ==
    [ settings |-> TwoFetchErrors, evidence |-> TwoFetchErrors, policies |-> TwoFetchErrors, faults |-> PinnedFetchErrors ]

MCCallFaults ==
    [ settings |-> {"netError"}, evidence |-> {"netError"}, policies |-> {"netError"},
      faults   |-> {"netError", "ethereum.NotFound", "HTTP4xx", "HTTPOther", "rpcInvalid",
                    "rpcOther", "unknown"} ]
=============================================================================
