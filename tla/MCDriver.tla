------------------------------- MODULE MCDriver -------------------------------
EXTENDS Driver

\* compilers run in /b, on files there and in /s
MCDirectories == {<<"/", "b">>}
MCFiles       == {<<"a.c">>, <<".", "a.c">>, <<"..", "s", "a.c">>, <<"/", "s", "a.c">>}

\* two compilers, with a resource directory of their own, without, and no command
MCLines == {<<>>, <<"cc">>, <<"c++">>, <<"cc", "-resource-dir", "own">>}
MCUnitWords    == <<"u1">>
MCCommandWords == <<"c1", "c2">>
MCExtra == {<<>>, <<"-resource-dir", "extra">>}

=============================================================================
