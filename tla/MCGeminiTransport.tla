-------------------------- MODULE MCGeminiTransport --------------------------
(***************************************************************************)
(* Two workers with one limiter slot between them score two chunks.        *)
(***************************************************************************)
EXTENDS GeminiTransport

=============================================================================
