---------------------------- MODULE MCParsedXmps ----------------------------
(* Instances of ParsedXmps for TLC.                                        *)
EXTENDS ParsedXmps

=============================================================================
