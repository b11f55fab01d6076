----------------------------- MODULE MCAccounts -----------------------------
\* A new account, or one with tokens in both contracts and an
\* allowance; amounts of one or two.
EXTENDS Accounts

SmallFunds == {[ptc |-> 0, psc |-> 0, allow |-> 0], [ptc |-> 2, psc |-> 1, allow |-> 1]}
=============================================================================
