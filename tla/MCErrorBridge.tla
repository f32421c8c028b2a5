----------------------------- MODULE MCErrorBridge -----------------------------
(***************************************************************************)
(* ErrorBridge for TLC: one text of the library that fits the in-place     *)
(* buffer of a std::string (13 characters) and one that does not (24).     *)
(***************************************************************************)
EXTENDS ErrorBridge

MCShortWhat == {"stack is null"}
MCLongWhat  == {"layer index out of range"}
================================================================================
