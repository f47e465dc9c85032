---------------------------- MODULE MCAssistant ----------------------------
(***************************************************************************)
(* Instance of Assistant for TLC.                                          *)
(***************************************************************************)
EXTENDS Assistant

\* One command for anyone, one for the owner that the wizard also asks for, and
\* the two that ask.
MCOffered == {"updateServiceConfig", "registerServer", "promoteProduction", "content.publish"}

MCCallerRoles == {{"owner"}, {"platform:release"}}

=============================================================================
