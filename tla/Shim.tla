-------------------------------- MODULE Shim --------------------------------
(***************************************************************************)
(* What `java` runs: the shim walks up from the working directory to the   *)
(* pin that decides (jdk-resolve/src/cascade.rs, pin.rs), looks for the    *)
(* best installed JDK that the pin accepts (store.rs), and where there is  *)
(* none has `jdk install --from-shim` get one, if the configuration and the*)
(* user want it (jdk-shim/src/main.rs, jdk/src/install.rs).                *)
(* The same install is also a command of its own, and what `java` would    *)
(* run is what `jdk which` and `jdk current` report (jdk/src/resolve.rs).  *)
(* Pin files, configuration and store are read one after the other, without*)
(* a lock, while others change them.  The pin files have no variable: they *)
(* may be written between any two reads, so that a read finds anything, and*)
(* the view of a walk, what it has read, is the files themselves if nobody *)
(* writes them.                                                            *)
(***************************************************************************)
EXTENDS Versions, FiniteSets

CONSTANTS
    Procs,       \* the processes running java or jdk install
    Depth,       \* how many directories up the root of the drive is
    Sources,     \* how many formats of pin files are recognised
    Selectors,   \* the selectors that are pinned or typed
    Configs,     \* what config.toml may say, its absence included
    Published,   \* the packages of the index
    Live,        \* the packages the live API answers with
    Default,     \* DEFAULT_VENDOR
    Proprietary  \* the vendors whose terms are to be accepted

Vendors  == {k.vendor : k \in Published \cup Live}
Policies == {"always", "prompt", "never"}
NoVendor == "none"

Selector == [vendor : Vendors \cup {NoVendor}, version : Texts]
Package  == [vendor : Vendors, version : Texts, ea : BOOLEAN]

(* A version begins with a number (Version::from_str).                     *)
ASSUME ShimAssumption ==
    /\ Depth \in Nat \ {0} /\ Sources \in Nat \ {0}
    /\ Selectors \subseteq {s \in Selector : s.version.head # <<>>}
    /\ Published \subseteq Package /\ Live \subseteq Package
    /\ NoVendor \notin Vendors
    /\ Default \in Vendors
    /\ Proprietary \subseteq Vendors
    /\ Configs \subseteq [readable : BOOLEAN, vendor : Vendors,
                          policy : Policies, accept : BOOLEAN]

(* A JDK of the store, by the name of its directory.                       *)
Jdk(k) == [vendor |-> k.vendor, version |-> Display(Parse(k.version))]
Jdks   == {Jdk(k) : k \in Published \cup Live}

NoText == [head |-> <<>>, sep |-> "none", tail |-> <<>>]
NoJdk  == [vendor |-> NoVendor, version |-> NoText]

(* What a pin file's parser makes of it: there is none, it says nothing of *)
(* java, it does not parse, or it pins a selector.                         *)
NoPin    == NoJdk
Content(kind) == [kind |-> kind, sel |-> NoPin]
Absent   == Content("absent")
Contents == {Absent, Content("silent"), Content("malformed")}
                \cup {[kind |-> "pin", sel |-> s] : s \in Selectors}

Unread == Content("unread")

(* The pin files of a walk, by directory and by precedence.                *)
Places == (1 .. Depth) \X (1 .. Sources)
NoView == [f \in Places |-> Unread]

VARIABLES
    config,     \* config.toml
    installed,  \* the JDKs of the store
    global,     \* the one `current` points at
    pc,         \* where each process is
    run,        \* what it was asked, and what it has found out
    code        \* how it ended

env  == <<config, installed, global>>
vars == <<config, installed, global, pc, run, code>>

(* op, sel: the command and the selector it goes by; tty: whether there is *)
(* a console; at: the pin file to be read next; view: what was read so far;*)
(* vendor: the vendor the selector stands for, before that the configured  *)
(* one of a report; consent: to the terms, beforehand; pick: the JDK to run*)
(* or to install; edited: whether others changed anything meanwhile.       *)
NoRun == [op |-> "java", sel |-> NoPin, tty |-> FALSE, at |-> <<1, 1>>,
          view |-> NoView, vendor |-> NoVendor, consent |-> FALSE,
          pick |-> NoJdk, edited |-> FALSE]

(* `current` is also doctor's look at the pin.                             *)
Reports == {"which", "current"}

Init ==
    /\ config \in Configs
    /\ installed = {}
    /\ global = NoJdk
    /\ pc = [p \in Procs |-> "idle"]
    /\ run = [p \in Procs |-> NoRun]
    /\ code = [p \in Procs |-> "none"]

-----------------------------------------------------------------------------
(* What is chosen.                                                         *)

(* The vendor a selector stands for.                                       *)
Means(s, default) == IF s.vendor = NoVendor THEN default ELSE s.vendor

(* Mutant: any vendor's will do.                                           *)
CandidatesOfAny(v, s) ==
    {j \in installed : Matches(Parse(j.version), Parse(s.version))}

(* best_candidate.                                                         *)
Candidates(v, s) ==
    {j \in installed : j.vendor = v /\ Matches(Parse(j.version), Parse(s.version))}

Best(S) ==
    {j \in S : \A k \in S :
        ~Outranks(Parse(k.version), Stable(Parse(k.version)),
                  Parse(j.version), Stable(Parse(j.version)))}

(* Of the packages of a catalogue, those that answer a selector: early     *)
(* access does not unless the selector names a pre-release.                *)
Matching(S, v, p) == {k \in S : k.vendor = v /\ Matches(Parse(k.version), p)}

Eligible(S, v, p) == {k \in Matching(S, v, p) : p.pre = None => ~k.ea}

IsStable(k) == ~k.ea /\ Stable(Parse(k.version))

PickBest(S) ==
    {k \in S : \A l \in S :
        ~Outranks(Parse(l.version), IsStable(l), Parse(k.version), IsStable(k))}

(* The best build of a line that has early access only.                    *)
EarlyAccess(v, p) ==
    {k \in Matching(Published, v, p) :
        \A l \in Matching(Published, v, p) : ~Less(Parse(k.version), Parse(l.version))}

(* Mutant: the build number stays in the line that is suggested.           *)
EaLineWhole(v) == [v EXCEPT !.pre = Append(@, Dot)]

(* ea_line: the selector that is suggested then, `27-ea` for `27-ea+31`.   *)
EaLine(v) ==
    LET cut == SelectInSeq(v.pre, LAMBDA t : t = Plus)
    IN  IF cut = 0 THEN v ELSE [v EXCEPT !.build = None, !.pre = SubSeq(@, 1, cut - 1)]

-----------------------------------------------------------------------------

Goto(p, l) == pc' = [pc EXCEPT ![p] = l] /\ UNCHANGED code

End(p, c) ==
    /\ pc' = [pc EXCEPT ![p] = "idle"]
    /\ code' = [code EXCEPT ![p] = c]
    /\ run' = [run EXCEPT ![p] = NoRun]

Start(p, l, r) ==
    /\ pc[p] = "idle"
    /\ pc' = [pc EXCEPT ![p] = l]
    /\ code' = [code EXCEPT ![p] = "none"]
    /\ run' = [run EXCEPT ![p] = r]
    /\ UNCHANGED env

BeginJava(p, t) == Start(p, "cascade", [NoRun EXCEPT !.tty = t])

BeginInstall(p, s, flag, t) ==
    Start(p, "catalog",
          [NoRun EXCEPT !.op = "install", !.sel = s, !.consent = flag, !.tty = t])

(* A report reads config.toml before anything else.                        *)
BeginReport(p, c) == Start(p, "settings", [NoRun EXCEPT !.op = c])

LoadSettings(p) ==
    /\ pc[p] = "settings"
    /\ \/ /\ config.readable
          /\ run' = [run EXCEPT ![p].vendor = config.vendor]
          /\ Goto(p, "cascade")
       \/ /\ ~config.readable
          /\ End(p, "badconfig")
    /\ UNCHANGED env

-----------------------------------------------------------------------------
(* The cascade, file by file: the first directory with any pin file is the *)
(* last one looked at.                                                     *)

Seen(p, c) == [run[p].view EXCEPT ![run[p].at] = c]

HasFile(view, d) == \E k \in 1 .. Sources : view[<<d, k>>].kind \notin {"absent", "unread"}

(* Mutant: a directory whose files pin nothing is passed over.             *)
EndsHereAtTheRoot(at, view) == at = <<Depth, Sources>>

EndsHere(at, view) == at[2] = Sources /\ (HasFile(view, at[1]) \/ at[1] = Depth)

NextPlace(at) == IF at[2] < Sources THEN <<at[1], at[2] + 1>> ELSE <<at[1] + 1, 1>>

NoDeclaration(p, c) ==
    /\ pc[p] = "cascade"
    /\ c.kind \in {"absent", "silent"}
    /\ \/ /\ EndsHere(run[p].at, Seen(p, c))
          /\ run' = [run EXCEPT ![p].view = Seen(p, c)]
          /\ Goto(p, "global")
       \/ /\ ~EndsHere(run[p].at, Seen(p, c))
          /\ run' = [run EXCEPT ![p].view = Seen(p, c), ![p].at = NextPlace(@)]
          /\ UNCHANGED <<pc, code>>
    /\ UNCHANGED env

Declaration(p, c) ==
    /\ pc[p] = "cascade"
    /\ c.kind = "pin"
    /\ run' = [run EXCEPT ![p].view = Seen(p, c), ![p].sel = c.sel]
    /\ Goto(p, "vendor")
    /\ UNCHANGED env

(* It does not parse, or cannot be read.                                   *)
CascadeFails(p) ==
    /\ pc[p] = "cascade"
    /\ End(p, "badpin") \/ End(p, "failure")
    /\ UNCHANGED env

-----------------------------------------------------------------------------
(* The shim: pinned_tool_exe and auto_install.                             *)

(* Mutant: config.toml is loaded for every pin.                            *)
NeedsAny(s) == TRUE

NeedsVendor(s) == s.vendor = NoVendor

(* Mutant: a report goes by the default, whatever is configured.           *)
GivenDefault(p) ==
    IF run[p].op = "java" /\ NeedsVendor(run[p].sel) THEN config.vendor ELSE Default

(* The vendor that is given to best_candidate, which has no use for it     *)
(* when the selector names one.                                            *)
Given(p) ==
    CASE run[p].op \in Reports -> run[p].vendor
      [] run[p].op = "java" /\ NeedsVendor(run[p].sel) -> config.vendor
      [] OTHER -> Default

(* The shim reads config.toml only for a selector without a vendor.        *)
LoadVendor(p) ==
    /\ pc[p] = "vendor"
    /\ LET loads == run[p].op = "java" /\ NeedsVendor(run[p].sel) IN
       \/ /\ loads => config.readable
          /\ run' = [run EXCEPT ![p].vendor = Means(run[p].sel, Given(p)),
                              ![p].view = NoView, ![p].at = NoRun.at]
          /\ Goto(p, "find")
       \/ /\ loads /\ ~config.readable
          /\ End(p, "badconfig")
    /\ UNCHANGED env

Answering(p) == Candidates(run[p].vendor, run[p].sel)

Find(p) ==
    /\ pc[p] \in {"find", "rescan"}
    /\ \E j \in Best(Answering(p)) : run' = [run EXCEPT ![p].pick = j]
    /\ Goto(p, "exists")
    /\ UNCHANGED env

FindsNothing(p) ==
    /\ pc[p] \in {"find", "rescan"}
    /\ Answering(p) = {}
    /\ \/ pc[p] = "find" /\ run[p].op = "java" /\ Goto(p, "policy") /\ UNCHANGED run
       \/ (pc[p] = "rescan" \/ run[p].op \in Reports) /\ End(p, "notinstalled")
    /\ UNCHANGED env

(* The store cannot be read.                                               *)
ScanFails(p) ==
    /\ pc[p] \in {"find", "rescan"}
    /\ End(p, "failure")
    /\ UNCHANGED env

Prompts(p) == config.policy = "prompt" /\ run[p].tty

DecideInstall(p) ==
    /\ pc[p] = "policy"
    /\ \/ ~config.readable /\ End(p, "badconfig")
       \/ /\ config.readable /\ config.policy = "always"
          /\ Goto(p, "spawn") /\ UNCHANGED run
       \/ /\ config.readable /\ Prompts(p)
          /\ Goto(p, "ask") /\ UNCHANGED run
       \/ /\ config.readable /\ config.policy # "always" /\ ~Prompts(p)
          /\ End(p, "notinstalled")
    /\ UNCHANGED env

(* The user answers, or closes the input.                                  *)
Answer(p) ==
    /\ pc[p] = "ask"
    /\ \/ Goto(p, "spawn") /\ UNCHANGED run
       \/ End(p, "notinstalled")
    /\ UNCHANGED env

(* jdk.exe is at its place, is put back there, or is on the PATH.          *)
Spawn(p) ==
    /\ pc[p] = "spawn"
    /\ \/ Goto(p, "catalog") /\ UNCHANGED run
       \/ End(p, "failure")
    /\ UNCHANGED env

-----------------------------------------------------------------------------
(* jdk install, for the shim or by itself.                                 *)

(* Mutant: the machine's standing consent counts for the shim as well.     *)
ConsentAmbient(p) == run[p].consent \/ config.accept

(* Consent::of: what the configuration accepts, it does not accept for the *)
(* shim.                                                                   *)
Consent(p) == run[p].consent \/ (config.accept /\ run[p].op = "install")

(* The shim hands the selector on as it is written.                        *)
Asked(p) ==
    LET version == Parse(run[p].sel.version)
    IN  IF run[p].op = "java" THEN Parse(Display(version)) ELSE version
Meant(p) == Means(run[p].sel, config.vendor)

(* The index answers, or the live API when the index cannot.               *)
Offers(p) ==
    PickBest(Eligible(Published, Meant(p), Asked(p)))
        \cup PickBest(Eligible(Live, Meant(p), Asked(p)))

Resolve(p) ==
    /\ pc[p] = "catalog"
    /\ config.readable
    /\ \E k \in Offers(p) :
         run' = [run EXCEPT ![p].pick = Jdk(k), ![p].consent = Consent(p)]
    /\ Goto(p, "terms")
    /\ UNCHANGED env

(* The index has the line as early access only: if the API does not have it*)
(* either, the refusal suggests a selector.                                *)
SuggestsLine(p) ==
    /\ Asked(p).pre = None
    /\ Matching(Published, Meant(p), Asked(p)) # {}
    /\ Eligible(Published, Meant(p), Asked(p)) = {}

ResolveFails(p) ==
    /\ pc[p] = "catalog"
    /\ \/ ~config.readable /\ End(p, "badconfig")
       \/ config.readable /\ SuggestsLine(p) /\ End(p, "eaonly")
       \/ config.readable /\ End(p, "network")
    /\ UNCHANGED env

(* The terms are put to a user with a console who typed the command.       *)
Terms(p) ==
    /\ pc[p] = "terms"
    /\ LET jdk   == run[p].pick
           moot  == jdk.vendor \notin Proprietary \/ jdk \in installed
           asks  == run[p].op = "install" /\ run[p].tty
       IN  \/ /\ moot \/ run[p].consent \/ asks
              /\ Goto(p, "install") /\ UNCHANGED run
           \/ ~moot /\ ~run[p].consent /\ End(p, "declined")
    /\ UNCHANGED env

(* install(): whole or not at all, see Store.                              *)
Install(p) ==
    /\ pc[p] = "install"
    /\ \/ /\ installed' = installed \cup {run[p].pick}
          /\ Goto(p, "elect") /\ UNCHANGED run
       \/ /\ UNCHANGED installed
          /\ End(p, "failure")
    /\ UNCHANGED <<config, global>>

(* establish_global_if_unset, and what the install ends in; a directory of *)
(* somebody else's at `current` is in Current.                             *)
Elect(p) ==
    /\ pc[p] = "elect"
    /\ global' = IF global \in installed THEN global ELSE run[p].pick
    /\ \/ run[p].op = "java" /\ Goto(p, "rescan") /\ UNCHANGED run
       \/ run[p].op = "install" /\ End(p, "installed")
    /\ UNCHANGED <<config, installed>>

ElectFails(p) ==
    /\ pc[p] = "elect" /\ global \notin installed
    /\ End(p, "failure")
    /\ UNCHANGED env

-----------------------------------------------------------------------------
(* The launch.                                                             *)

Target(p) == IF run[p].sel = NoPin THEN global ELSE run[p].pick

UseGlobal(p) ==
    /\ pc[p] = "global"
    /\ \/ /\ global \in installed
          /\ run' = [run EXCEPT ![p].view = NoView, ![p].at = NoRun.at]
          /\ Goto(p, "exists")
       \/ global \notin installed /\ End(p, "notinstalled")
    /\ UNCHANGED env

Exists(p) ==
    /\ pc[p] = "exists" /\ run[p].op = "java"
    /\ \/ Target(p) \in installed /\ Goto(p, "launch") /\ UNCHANGED run
       \/ Target(p) \notin installed /\ End(p, "notool")
    /\ UNCHANGED env

(* `which` looks whether the tool is there, `current` does not.            *)
ReportTool(p) ==
    /\ pc[p] = "exists" /\ run[p].op = "which"
    /\ End(p, IF Target(p) \in installed THEN "shown" ELSE "notool")
    /\ UNCHANGED env

ReportCurrent(p) ==
    /\ pc[p] = "exists" /\ run[p].op = "current"
    /\ End(p, "shown")
    /\ UNCHANGED env

Launch(p) ==
    /\ pc[p] = "launch"
    /\ End(p, IF Target(p) \in installed THEN "ran" ELSE "failure")
    /\ UNCHANGED env

-----------------------------------------------------------------------------
(* Others: they configure, install, uninstall and move the global JDK.     *)

Touch ==
    /\ run' = [p \in Procs |-> [run[p] EXCEPT !.edited = pc[p] # "idle"]]
    /\ UNCHANGED <<pc, code>>

Configure(c) ==
    /\ c # config
    /\ config' = c
    /\ Touch
    /\ UNCHANGED <<installed, global>>

Arrive(j) ==
    /\ j \notin installed
    /\ installed' = installed \cup {j}
    /\ Touch
    /\ UNCHANGED <<config, global>>

Use(j) ==
    /\ j \in installed \ {global}
    /\ global' = j
    /\ Touch
    /\ UNCHANGED <<config, installed>>

Uninstall(j) ==
    /\ j \in installed
    /\ installed' = installed \ {j}
    /\ Touch
    /\ UNCHANGED <<config, global>>

-----------------------------------------------------------------------------

Step(p) ==
    \/ \E c \in Contents : NoDeclaration(p, c) \/ Declaration(p, c)
    \/ CascadeFails(p)
    \/ LoadSettings(p) \/ LoadVendor(p) \/ Find(p) \/ FindsNothing(p) \/ ScanFails(p)
    \/ DecideInstall(p) \/ Spawn(p) \/ Resolve(p) \/ ResolveFails(p) \/ Terms(p)
    \/ Install(p) \/ Elect(p) \/ ElectFails(p)
    \/ UseGlobal(p) \/ Exists(p) \/ ReportTool(p) \/ ReportCurrent(p) \/ Launch(p)

Next ==
    \/ \E p \in Procs :
         \/ \E t \in BOOLEAN :
              \/ BeginJava(p, t)
              \/ \E s \in Selectors, flag \in BOOLEAN : BeginInstall(p, s, flag, t)
         \/ \E c \in Reports : BeginReport(p, c)
         \/ Step(p) \/ Answer(p)
    \/ \E c \in Configs : Configure(c)
    \/ \E j \in Jdks : Arrive(j) \/ Use(j) \/ Uninstall(j)

Spec == Init /\ [][Next]_vars

-----------------------------------------------------------------------------
(* Properties.                                                             *)

(* What pin files come to: the nearest directory with any of them decides, *)
(* by its files in their order and never mixed with those above it.        *)
Nearest(files) ==
    LET Levels  == {d \in 1 .. Depth : HasFile(files, d)}
        Decides == CHOOSE d \in Levels : \A e \in Levels : d <= e
        Speaks  == {k \in 1 .. Sources : files[<<Decides, k>>].kind \in {"pin", "malformed"}}
    IN  IF Levels = {} \/ Speaks = {} THEN NoPin
        ELSE files[<<Decides, CHOOSE k \in Speaks : \A l \in Speaks : k <= l>>].sel

(* The files as the walk read them, and `rest` where it read none.         *)
Filled(view, rest) == [f \in Places |-> IF view[f] = Unread THEN rest[f] ELSE view[f]]

(* The walk comes to what the pin files come to, whatever those hold that  *)
(* it did not read (cascade.rs:64-67).                                     *)
CascadeIsNearest ==
    \A p \in Procs :
        pc[p] \in {"vendor", "global"} =>
          \A rest \in [{f \in Places : run[p].view[f] = Unread} -> Contents] :
            Nearest(Filled(run[p].view, rest)) = run[p].sel

(* What runs for a pin is of the pinned vendor and line, however it got    *)
(* into the store and whatever changed meanwhile (main.rs:98-117).         *)
RunsThePin ==
    \A p \in Procs :
        pc[p] = "launch" /\ run[p].sel # NoPin =>
          LET v == Parse(Target(p).version)
              flat == IF LoneBuild(v) THEN Folded(v) ELSE v.nums
          IN  /\ run[p].sel.vendor \in {NoVendor, Target(p).vendor}
              /\ IsPrefix(run[p].sel.version.head, flat)

(* Of the installed JDKs that a selector accepts one is the best, whatever *)
(* order the directory lists them in (version.rs:24-28).                   *)
RankDecides ==
    \A v \in Vendors, s \in Selectors :
        Candidates(v, s) # {} => Cardinality(Best(Candidates(v, s))) = 1

(* A malformed config.toml stops no java that would not have needed it:    *)
(* only a pin without a vendor, or one that nothing installed answers      *)
(* (main.rs:92-97).                                                        *)
LazyConfig ==
    [][\A p \in Procs :
         run[p].op = "java" /\ code[p] = "none" /\ code'[p] = "badconfig" /\ ~run[p].edited =>
           /\ run[p].sel # NoPin
           /\ \/ run[p].sel.vendor = NoVendor
              \/ Candidates(run[p].sel.vendor, run[p].sel) = {}]_vars

(* What the shim would run for a selector, without installing.             *)
ShimRuns(s) ==
    IF s = NoPin THEN {global} \cap installed
    ELSE Best(Candidates(Means(s, IF NeedsVendor(s) THEN config.vendor ELSE Default), s))

(* "The CLI's answer provably matches what a shim invocation would run":   *)
(* what is shown is what would run, and where nothing would, nothing is    *)
(* shown, if nobody interferes (resolve.rs:1-3).                           *)
ReportIsWhatRuns ==
    [][\A p \in Procs :
         run[p].op \in Reports /\ code[p] = "none" /\ ~run[p].edited =>
           /\ code'[p] = "shown" => Target(p) \in ShimRuns(run[p].sel)
           /\ code'[p] = "notinstalled" => ShimRuns(run[p].sel) = {}]_vars

(* No java accepts a vendor's terms: what the machine's configuration      *)
(* accepts is not accepted for whoever typed `java` (install.rs:136-141).  *)
NoTermsThroughTheShim ==
    [][\A p \in Procs :
         run[p].op = "java" /\ pc[p] = "install" /\ pc'[p] = "elect"
             /\ run[p].pick \notin installed /\ ~run[p].edited
           => run[p].pick.vendor \notin Proprietary]_vars

(* An install for the shim that succeeds gives what the shim was looking   *)
(* for: the catalogue's choice answers the pin in the store as well, when  *)
(* nobody interferes (catalog.rs:305-310).                                 *)
InstalledIsFound ==
    [][\A p \in Procs :
         pc[p] = "rescan" /\ ~run[p].edited => code'[p] # "notinstalled"]_vars

(* The line that a refusal suggests is not refused again: the early-access *)
(* builds of the index answer it (catalog.rs:285-290).  A build whose      *)
(* version does not show that it is one has no line, and is left out.      *)
SuggestionResolves ==
    [][\A p \in Procs :
         code[p] = "none" /\ code'[p] = "eaonly" =>
           \A k \in EarlyAccess(Meant(p), Asked(p)) :
             ~Stable(Parse(k.version)) =>
               Eligible(Published, Meant(p), EaLine(Parse(k.version))) # {}]_vars

=============================================================================
