------------------------- MODULE MCServerLifecycle -------------------------
(***************************************************************************)
(* Both kinds of deployment of config.SourceAttestationTypes, and the      *)
(* code's timeouts in ticks of 5 seconds.                                  *)
(***************************************************************************)
EXTENDS ServerLifecycle

CONSTANTS r1, r2

MCDeployments ==
    { <<"TeeAvailabilityCheck">>,
      <<"PMWMultisigAccountConfigured", "PMWPaymentStatus", "PMWFeeProof">> }
MCRequests == {r1, r2}
=============================================================================
