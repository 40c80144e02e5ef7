--------------------------- MODULE MCToolRuntime ---------------------------
(* Two tool servers that may offer the same tool for TLC. *)
EXTENDS ToolRuntime

CONSTANTS web, code, search, fetch

MCProfiles == <<web, code>>
MCOffers == {{search}, {fetch}, {search, fetch}}
MCDisabledSets == {{}, {fetch}}
=============================================================================
