---------------------------- MODULE UpdateCheck ----------------------------
(***************************************************************************)
(* The life of the module (src/src/plugin-main.c) and its update check     *)
(* (src/src/update-checker): obs_module_load starts libcurl and, if the    *)
(* user wants it, a thread that asks for the latest release; the property  *)
(* pages of the filters read what it found; obs_module_unload joins the    *)
(* thread and stops libcurl.                                               *)
(*                                                                         *)
(* check_update is called once, from obs_module_load, so that its join of  *)
(* an earlier check never has anything to do and is left out.              *)
(***************************************************************************)
EXTENDS SemVer

CONSTANTS
  Pages,      \* threads that show a property page
  Releases,   \* versions a release or this build may have
  Malformed,  \* tags that are no versions
  None        \* no version, no answer

\* The letter `v' before a version becomes a part of its first field.
WithV(text) == [text EXCEPT !.core[1] = <<118>> \o @]

\* the `v' of a tag is dropped
Untagged(tag) ==
  IF IsPrefix(<<118>>, tag.core[1]) THEN [tag EXCEPT !.core[1] = Tail(@)] ELSE tag

Tags == Releases \cup Malformed \cup {WithV(text) : text \in Releases}

ASSUME UpdateNoneAssumption == None \notin Tags
ASSUME ReleasesAssumption   == \A text \in Releases : text \in Text /\ IsVersion(text)
ASSUME MalformedAssumption  == \A tag \in Malformed : ~IsVersion(Untagged(tag))

VARIABLES
  module,        \* "new", "loading", "loaded", "unloading", "curl", "gone", "refused"
  curl,          \* curl_initialized
  flag,          \* check_for_updates in the configuration file: "unset", "on", "off"
  PLUGIN_VERSION,
  tstage,        \* the update thread: "none", "fetch", "report", "exited"
  holder,        \* who holds the thread object: "none", "static", "shutdown"
  timedOut,      \* the transfer's time is up
  info,          \* what the thread will report: a version, None for a failure
  latestVersionForUpdate,
  shown          \* shown[p]: the update the page p offers

updateVars == <<module, curl, flag, PLUGIN_VERSION, tstage, holder, timedOut, info,
                latestVersionForUpdate, shown>>

\* The definitions named Variant... are those beside them with one plausible slip;
\* no specification uses them.  They show which slip each property would catch.

UpdateInit ==
  /\ module = "new" /\ curl = FALSE
  /\ flag \in {"unset", "on", "off"}
  /\ PLUGIN_VERSION \in Releases
  /\ tstage = "none" /\ holder = "none" /\ timedOut = FALSE /\ info = None
  /\ latestVersionForUpdate = None
  /\ shown = [p \in Pages |-> None]

-----------------------------------------------------------------------------
(* obs_module_load *)

Load ==
  /\ module = "new"
  /\ \/ module' = "refused" /\ UNCHANGED curl
     \/ module' = "loading" /\ curl' = TRUE
  /\ UNCHANGED <<flag, PLUGIN_VERSION, tstage, holder, timedOut, info, latestVersionForUpdate, shown>>

\* getFlagFromConfig, when the file can be read
ShouldCheckForUpdates == flag = "on"

\* an unset flag is written to the file, if it can be; a file that cannot be read or
\* written leaves checks disabled
CheckUpdate ==
  /\ module = "loading" /\ module' = "loaded"
  /\ \/ /\ ShouldCheckForUpdates
        /\ tstage' = "fetch" /\ holder' = "static"
        /\ UNCHANGED flag
     \/ /\ flag' \in IF flag = "unset" THEN {"off", "unset"} ELSE {flag}
        /\ UNCHANGED <<tstage, holder>>
  /\ UNCHANGED <<curl, PLUGIN_VERSION, timedOut, info, latestVersionForUpdate, shown>>

-----------------------------------------------------------------------------
(* The update thread: fetchStringFromUrl, then the two callbacks *)

Report(i) ==
  /\ tstage = "fetch" /\ tstage' = "report"
  /\ info' = i
  /\ UNCHANGED <<module, curl, flag, PLUGIN_VERSION, holder, timedOut, latestVersionForUpdate, shown>>

\* The server answers with some release; one without tag_name counts as empty.
Answer == \E tag \in Tags : Report(Untagged(tag))

\* no connection, an error, an oversized or unreadable answer
Fails == Report(None)

VariantWaitsForEver == FALSE

\* CURLOPT_TIMEOUT_MS and CURLOPT_LOW_SPEED_TIME
TimesOut == timedOut /\ Fails

IsNewer == CompareVersions(info, PLUGIN_VERSION) > 0

Publish ==
  /\ tstage = "report" /\ tstage' = "exited"
  /\ latestVersionForUpdate' =
       IF info = None \/ ~(IsVersion(info) /\ IsVersion(PLUGIN_VERSION))
       THEN latestVersionForUpdate
       ELSE IF IsNewer THEN info ELSE None
  /\ UNCHANGED <<module, curl, flag, PLUGIN_VERSION, holder, timedOut, info, shown>>

-----------------------------------------------------------------------------
(* The other threads *)

\* get_latest_version for a property page; OBS shows none once it unloads modules
ShowPage(p) ==
  /\ module = "loaded"
  /\ shown' = [shown EXCEPT ![p] = latestVersionForUpdate]
  /\ UNCHANGED <<module, curl, flag, PLUGIN_VERSION, tstage, holder, timedOut, info,
                 latestVersionForUpdate>>

\* shutdown_update_checker takes the thread object over, if there is a thread, ...
Shutdown ==
  /\ module = "loaded" /\ module' = "unloading"
  /\ holder' = IF holder = "static" THEN "shutdown" ELSE holder
  /\ UNCHANGED <<curl, flag, PLUGIN_VERSION, tstage, timedOut, info, latestVersionForUpdate, shown>>

VariantDetaches == TRUE

Joinable == tstage = "exited"

\* ... and joins it without the mutex
Join ==
  /\ module = "unloading" /\ module' = "curl"
  /\ holder = "shutdown" => Joinable
  /\ holder' = "none"
  /\ UNCHANGED <<curl, flag, PLUGIN_VERSION, tstage, timedOut, info, latestVersionForUpdate, shown>>

CleanUp ==
  /\ module = "curl" /\ module' = "gone"
  /\ curl' = FALSE
  /\ UNCHANGED <<flag, PLUGIN_VERSION, tstage, holder, timedOut, info, latestVersionForUpdate, shown>>

\* time passes while the transfer runs
Wait ==
  /\ tstage = "fetch" /\ ~timedOut /\ timedOut' = TRUE
  /\ UNCHANGED <<module, curl, flag, PLUGIN_VERSION, tstage, holder, info,
                 latestVersionForUpdate, shown>>

-----------------------------------------------------------------------------
UpdateThread == TimesOut \/ Publish

Unload == Shutdown \/ Join \/ CleanUp

UpdateNext ==
  \/ Load \/ CheckUpdate
  \/ Answer \/ Fails \/ UpdateThread \/ Wait
  \/ Unload
  \/ \E p \in Pages : ShowPage(p)

UpdateSpec == UpdateInit /\ [][UpdateNext]_updateVars

\* The thread runs, time passes and an unload that has begun goes on; no server
\* has to answer and OBS need not unload the module.
FairUpdateSpec ==
  /\ UpdateSpec
  /\ WF_updateVars(UpdateThread) /\ WF_updateVars(Wait)
  /\ WF_updateVars(Join) /\ WF_updateVars(CleanUp)

-----------------------------------------------------------------------------
\* libcurl and the module's code outlive the thread, whenever the transfer ends and
\* OBS unloads the module: nothing runs in the module once it is gone and no
\* std::thread is destroyed that has not been joined.
CheckEndsBeforeUnload ==
  /\ tstage \in {"fetch", "report"} => curl /\ module \notin {"curl", "gone", "refused"}
  /\ module \in {"new", "refused", "gone"} => holder = "none" /\ ~curl

\* The "optional update check contacts GitHub only when it is enabled"
\* (README.md:92-93), and an update is offered exactly if the release precedes this
\* build in no way and is preceded by it as semver.org defines precedence; a tag
\* that is no version offers nothing.
OnlyNewerIsOffered ==
  /\ tstage # "none" => flag = "on"
  /\ tstage = "exited" =>
       latestVersionForUpdate =
         IF info \in Releases /\ Precedes(PLUGIN_VERSION, info) THEN info ELSE None
  /\ \A p \in Pages : shown[p] \in {None, latestVersionForUpdate}

\* Unloading the module takes no longer than the transfer may.
UnloadReturns == module = "unloading" ~> module = "gone"
=============================================================================
