---------------------------- MODULE Compatibility ----------------------------
(***************************************************************************)
(* check_compatibility of core/compatibility.hpp: what a replica declares  *)
(* against what its set requires.  Both are functions from the fields that *)
(* must be equal to values, with the adapters and the compute capability,  *)
(* which need not be.                                                      *)
(***************************************************************************)
EXTENDS Naturals

(* The fields compared for equality, each with the issue of a mismatch. *)
IssueOf ==
    [ model_id |-> "MODEL_MISMATCH", model_revision |-> "REVISION_MISMATCH",
      tokenizer_vocab |-> "TOKENIZER_MISMATCH", backend |-> "BACKEND_MISMATCH",
      runtime_name |-> "RUNTIME_MISMATCH", architecture |-> "ARCHITECTURE_MISMATCH",
      numeric_mode |-> "NUMERIC_MISMATCH", artifact_generation |-> "ARTIFACT_GENERATION_MISMATCH",
      kernel_abi |-> "KERNEL_ABI_MISMATCH", policy_fingerprint |-> "POLICY_FINGERPRINT_MISMATCH" ]

(* operator< of ComputeCapability: <<major, minor>> in lexicographic order *)
LowerCompute(a, b) == a[1] < b[1] \/ (a[1] = b[1] /\ a[2] < b[2])

Issues(req, got) ==
    {IssueOf[f] : f \in {f \in DOMAIN IssueOf : got[f] # req[f]}}
    \cup {"ADAPTER_MISSING" : a \in req.required_adapters \ got.adapters}
    \cup {"COMPUTE_TOO_LOW" : c \in {c \in {got.compute} : LowerCompute(c, req.min_compute)}}

CheckCompatibility(req, got) == Issues(req, got) = {}
=============================================================================
