------------------------------- MODULE MCBackend -------------------------------
(***************************************************************************)
(* The instance of Backend that TLC checks: a workspace of one folder, to  *)
(* which another may come, and a task of each kind.                        *)
(***************************************************************************)
EXTENDS Backend

CONSTANTS note, request, channel, site, docs

\* what the editor tells once initialized has been handled
Notes == {<<NewSetting>>, <<FolderAdded(docs), Refresh>>,
          <<FolderGone(site), FolderAdded(docs), Refresh>>}

MCJobs == [t \in Tasks |->
    CASE t = note -> {<<Initialized>> \o job : job \in Notes}
      [] t = request -> {<<Command(name, None)>> :
                            name \in {"start", "stop", "restart", "open"}}
                        \cup {<<Shutdown>>}
      [] t = channel -> {<<Toggle(site)>>}]
================================================================================
