----------------------------- MODULE Envelopes ------------------------------
(***************************************************************************)
(* runtime/contracts.EventEnvelope, as far as delivery can tell envelopes  *)
(* apart: the ID, which is what the worker deduplicates by, and whether    *)
(* the stored value can be decoded again.  Two envelopes may carry the     *)
(* same ID: EnsureEventID keeps an ID the caller supplied, so whoever      *)
(* stores captured envelopes again, after an error, stores the ID again.   *)
(***************************************************************************)
CONSTANTS
  Events,       \* event IDs
  NoEvent,      \* what a place that holds no event yet holds
  Undecodable   \* the events whose stored value no decoder accepts

ASSUME EnvelopeAssumption ==
  /\ NoEvent \notin Events
  /\ Undecodable \subseteq Events
=============================================================================
