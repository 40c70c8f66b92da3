----------------------------- MODULE MCCanary -----------------------------
EXTENDS Canary

Runners == Permutations(Client)

\* An accepted company whose Clay address authorizes the Apollo shadow call, one
\* where it does not, and a company M3 did not accept.
MCScenarios == {[accepted |-> TRUE,  shadow |-> TRUE],
                [accepted |-> TRUE,  shadow |-> FALSE],
                [accepted |-> FALSE, shadow |-> FALSE]}

=============================================================================
