---------------------------- MODULE MCRenderPatch ----------------------------
(* Instances of RenderPatch, in LiberoProcess, for TLC. *)
EXTENDS LiberoProcess

CONSTANTS a, b

\* The legacy layout, and current ones with and without the haze anchors.
MCVersions ==
  {[legacy |-> TRUE, offers |-> Edits], [legacy |-> FALSE, offers |-> {"cube"}],
   [legacy |-> FALSE, offers |-> Edits]}
=============================================================================
