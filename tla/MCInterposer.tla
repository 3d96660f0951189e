---------------------------- MODULE MCInterposer ----------------------------
(* Instances of Interposer for TLC: FROM = /f and TO = /t side by side, a     *)
(* directory d in both, a directory /o outside.                               *)
EXTENDS Interposer

CONSTANTS dRoot, dFrom, dFromD, dTo, dToD, dOther, fd1, fd2, t1, t2

MCNames == {"f", "t", "o", "d", ".", "..", "gone", "f2"}
MCBegins == { <<"f", "f2">> }
MCWidth == [name \in MCNames |->
              IF name = "gone" THEN 4 ELSE IF name \in {"..", "f2"} THEN 2 ELSE 1]
MCDirs  == {dRoot, dFrom, dFromD, dTo, dToD, dOther}
\* Where FROM names nothing, as in most uses of the library.
NoFromDirs == {dRoot, dTo, dToD, dOther}
MCLayout == [d \in Dirs |->
               CASE d = dRoot -> <<>>     [] d = dFrom -> <<"f">>  [] d = dFromD -> <<"f", "d">>
                 [] d = dTo -> <<"t">>    [] d = dOther -> <<"o">> [] OTHER -> <<"t", "d">>]
Siblings == << <<"/", "f">>, <<"/", "t">> >>
OneThread  == {t1}
TwoThreads == {t1, t2}
OneFd  == {fd1}
Outside == {dRoot, dTo, dOther}
AtRoot  == {dRoot}
Replacement == {[g \in Fds |-> dTo]}
OneOpen == {[g \in Fds |-> IF g = fd1 THEN d ELSE PIPE] : d \in {dRoot, dToD, PIPE}}

\* Absolute and relative, with dots, below FROM and outside.
FewTexts   == { <<"/", "f">>, <<"/", "f", "/", "..", "/", "o", "/", "d">>,
                <<"f", "/", "d">>, <<"..">> }
RacingTexts == { <<"/", "f">>, <<"f", "/", "d">>, <<"..">> }
TheirTexts == { <<"/", "f", "/", "d">>, <<"/", "o">>, <<"..", "/", "f", "/", "d">>,
                <<"..">>, <<"d">> }

KeepingOps == {op \in DOMAIN Handlers : Handlers[op].effect # "rmdir"}
SettledOps  == {op \in DOMAIN Handlers :
                  Handlers[op].effect \notin {"mkdir", "rmdir", "rename"}}
RemovingOps == {"chdir", "openat", "close", "mkdirat", "rmdir", "unlinkat"}
RacingOps   == {"chdir", "openat", "close"}

ThreadSymmetry == Permutations(Threads)

AnyBuffer  == {NULL, <<>>}
RealBuffer == {<<>>}
NoPlaces   == {}
OnePlace   == { <<"o", "d">> }
=============================================================================
