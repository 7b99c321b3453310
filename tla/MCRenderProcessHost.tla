------------------------- MODULE MCRenderProcessHost -------------------------
(* Instances of RenderProcessHost for TLC. *)
EXTENDS RenderProcessHost
==============================================================================
