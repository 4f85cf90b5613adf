------------------------------ MODULE MCUpdater ------------------------------
\* TLC's instance: a package of three files, published three times.  The second version
\* changes the DLL and the core, the third the emulator and the DLL.
EXTENDS UpdaterProps
CONSTANTS exe, core, dll
MCFiles == {exe, core, dll}
MCManifest == <<exe, dll, core>>
MCTags == << [parts |-> <<0, 18>>, suffixRank |-> 0],
             [parts |-> <<0, 18>>, suffixRank |-> 1],
             [parts |-> <<0, 19>>, suffixRank |-> 0] >>
MCBuiltIn == [f \in MCFiles |-> IF f = dll THEN <<1, 2, 3>>
                                ELSE IF f = exe THEN <<1, 1, 3>> ELSE <<1, 2, 2>>]
MCOldNames == <<"old", "old2">>
=============================================================================
