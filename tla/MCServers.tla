------------------------------ MODULE MCServers ------------------------------
(***************************************************************************)
(* Instances of Servers for TLC.                                           *)
(***************************************************************************)
EXTENDS Servers

\* Two keys, one of them pasted with either line ending, and a text that only the
\* browser takes for a key.
MCPastes ==
    {[key |-> "a", form |-> "openssh", ends |-> "lf"],
     [key |-> "a", form |-> "openssh", ends |-> "crlf"],
     [key |-> "b", form |-> "pem", ends |-> "lf"],
     [key |-> "b", form |-> "quoting", ends |-> "lf"]}

=============================================================================
