---------------------------- MODULE MCThreadJob ----------------------------
(* The calls of ThreadJob's application threads, for TLC. *)
EXTENDS ThreadJob

Of(kind, ranks, sync, flags) ==
  [kind |-> kind, ranks |-> ranks, sync |-> sync, flags |-> flags]

Both == <<1, 2>>
SyncAll == Of("sync", Both, TRUE, {})

\* Launch and copy, with and without waiting; a push while the DPUs run; callbacks of
\* each kind, none of them parallel and nonblocking.
JobPrograms == {
  <<Of("launch", Both, TRUE, {}), Of("copy", <<1>>, TRUE, {"fallible"})>>,
  <<Of("launch", <<1>>, FALSE, {}), Of("push", <<1>>, TRUE, {"parallel"}),
    Of("copy", <<1>>, TRUE, {})>>,
  <<Of("launch", <<1>>, FALSE, {}), Of("push", <<1>>, FALSE, {"parallel"}),
    Of("launch", <<1>>, TRUE, {})>>,
  <<Of("launch", <<1>>, FALSE, {}), Of("copy", <<1>>, FALSE, {"fallible"}),
    Of("sync", <<1>>, TRUE, {})>>,
  <<Of("copy", <<2>>, FALSE, {"fallible"}),
    Of("callback", Both, FALSE, {"nonblocking", "single"}), SyncAll>>,
  <<Of("launch", <<1>>, FALSE, {}), Of("callback", Both, FALSE, {"single", "fallible"}), SyncAll>>,
  <<Of("launch", <<1>>, FALSE, {}), Of("callback", <<1>>, TRUE, {"fallible"})>>,
  <<Of("callback", <<1>>, FALSE, {"parallel"}), Of("launch", <<1>>, FALSE, {}),
    Of("callback", <<1>>, FALSE, {"nonblocking"}), Of("sync", <<1>>, TRUE, {})>> }

\* A synchronous push while DPUs run that stop only when they have its data.
MissedPrograms == { <<Of("launch", <<1>>, FALSE, {}), Of("push", <<1>>, TRUE, {"parallel"})>> }
=============================================================================
