---------------------------- MODULE MCMullRunner ----------------------------
EXTENDS MullRunner

\* what is counted where for the two locations: all executed; the second location
\* not executed; the first in two instances of a function of which one was run;
\* both never executed, in a nested region too; f()&&g()||h(), where g() is never
\* called and || stands behind its region, in one that is executed
MCProfiles ==
  { [r1 |-> <<"executed", "outside">>, r2 |-> <<"outside", "executed">>],
    [r1 |-> <<"executed", "never">>,   r2 |-> <<"outside", "outside">>],
    [r1 |-> <<"executed", "outside">>, r2 |-> <<"never", "outside">>],
    [r1 |-> <<"never", "never">>,      r2 |-> <<"outside", "never">>],
    [r1 |-> <<"executed", "executed">>, r2 |-> <<"outside", "edge">>] }

=============================================================================
