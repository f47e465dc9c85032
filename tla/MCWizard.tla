------------------------------ MODULE MCWizard ------------------------------
EXTENDS Wizard

\* Left at the Access step, with everything but a server filled in.
HalfFilled == [step |-> 3, form |-> [EmptyForm EXCEPT !.access = "token", !.named = TRUE]]
MCEarlier == {HalfFilled}
=============================================================================
