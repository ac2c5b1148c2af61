---------------------------- MODULE ConfigStore ----------------------------
(***************************************************************************)
(* The configuration file /var/daq/config.ini as minIni.c keeps it.        *)
(* SET_TCP_PORT stores a port with ini_putl from either thread of          *)
(* configuration_management.  ini_puts looks the key up first, overwrites  *)
(* its line in place if the new one is as long, or else writes a changed   *)
(* copy, removes the file and renames the copy.  Nothing locks the file,   *)
(* and stdio writes to it when a stream is closed.                         *)
(*                                                                         *)
(* Directory entries and files are kept apart, because a stream stays with *)
(* the file it opened.  A file is a sequence of cells, so that lines of    *)
(* different lengths can be torn; sections and comments are left out.      *)
(*                                                                         *)
(* daq_function and configuration_management look their port up with       *)
(* ini_getl when they start, whatever is happening to the file just then,  *)
(* and listen on it.                                                       *)
(***************************************************************************)
EXTENDS Integers, Sequences, FiniteSets

CONSTANTS
  Writers,   \* threads that may call ini_puts
  Keys,      \* the two ports
  Values,    \* ports
  Width,     \* how many cells a line with this value takes
  Absent,    \* the default of ini_getl: no such key
  NoFile,    \* no file
  Number,    \* the value as a number; that of Absent is ini_getl's default
  Programs,  \* programs that listen on a port of the file
  KeyOf,     \* the port each of them looks up
  MayCrash   \* whether configuration_management may die

ASSUME WidthAssumption == Width \in [Values -> Nat \ {0}]
ASSUME NumberAssumption == Number \in [Values \union {Absent} -> Int]
ASSUME ProgramAssumption == KeyOf \in [Programs -> Keys]
ASSUME FileAssumption ==
  NoFile \notin Nat /\ IsFiniteSet(Writers) /\ IsFiniteSet(Programs)
ASSUME AbsentAssumption == Absent \notin Values /\ MayCrash \in BOOLEAN

VARIABLES
  dir,                  \* the file behind "config" and behind "temp"
  data,                 \* the contents of each file
  wpc, wreq,            \* writers: where, the key and value to store
  rfp, wfp,             \* writers: the files their streams have open
  snap,                 \* writers: what they have read
  ppc, pfp,             \* programs: where, the file they have open
  port,                 \* programs: the port they listen on, 0 for any
  fresh                 \* history: what a program that starts would read now
                        \* has been its setting since it began

files   == <<dir, data>>
writers == <<wpc, wreq, rfp, wfp, snap>>
servers == <<ppc, pfp, port>>
vars    == <<files, writers, servers, fresh>>

Names == {"config", "temp"}
Files == 1 .. 2 + 2 * Cardinality(Writers) + Cardinality(Programs)

-----------------------------------------------------------------------------
(* Contents of files. *)

Hole == <<>>

LineOf(k, v) == [n \in 1 .. Width[v] |-> <<k, v, n>>]

\* A whole line with key k starts at cell i, and nothing is before it on that
\* line.
HasLine(file, i, k) ==
  /\ file[i] # Hole /\ file[i][1] = k /\ file[i][3] = 1
  /\ LET v == file[i][2] IN
       /\ i + Width[v] - 1 <= Len(file)
       /\ \A n \in 2 .. Width[v] : file[i + n - 1] = <<k, v, n>>
  /\ i = 1 \/ (file[i - 1] # Hole /\ file[i - 1][3] = Width[file[i - 1][2]])

Positions(file, k) == {i \in 1 .. Len(file) : HasLine(file, i, k)}

Found(file, k) == Positions(file, k) # {}

\* getkeystring takes the first line with the key.
First(file, k) ==
  LET at == Positions(file, k) IN CHOOSE i \in at : \A j \in at : i <= j

Lookup(file, k) == IF Found(file, k) THEN file[First(file, k)][2] ELSE Absent

\* fseek and one write.
Overwrite(file, at, new) ==
  LET end == at + Len(new) - 1 IN
  [i \in 1 .. IF end > Len(file) THEN end ELSE Len(file) |->
     IF i \in at .. end THEN new[i - at + 1]
     ELSE IF i <= Len(file) THEN file[i] ELSE Hole]

\* Mistake: what follows the old line is not copied.
ReplaceDropsRest(file, k, v) ==
  IF ~Found(file, k) THEN file \o LineOf(k, v)
  ELSE SubSeq(file, 1, First(file, k) - 1) \o LineOf(k, v)

\* The copy ini_puts makes: the old line replaced, or a new one at the end.
Replace(file, k, v) ==
  IF ~Found(file, k) THEN file \o LineOf(k, v)
  ELSE LET i == First(file, k) IN
       SubSeq(file, 1, i - 1) \o LineOf(k, v)
         \o SubSeq(file, i + Width[Lookup(file, k)], Len(file))

InitialContents ==
  {<<>>}
    \union {LineOf(k, v) : k \in Keys, v \in Values}
    \union UNION {{LineOf(k, v) \o LineOf(l, u) : l \in Keys \ {k},
                     u \in Values} : k \in Keys, v \in Values}

-----------------------------------------------------------------------------
Init ==
  /\ dir \in [Names -> {NoFile, 1}] /\ dir["temp"] = NoFile
  /\ \E contents \in InitialContents :
       data = [f \in Files |-> IF f = dir["config"] THEN contents ELSE <<>>]
  /\ wpc = [w \in Writers |-> "idle"] /\ wreq = [w \in Writers |-> <<>>]
  /\ rfp = [w \in Writers |-> NoFile] /\ wfp = [w \in Writers |-> NoFile]
  /\ snap = [w \in Writers |-> <<>>]
  /\ ppc = [p \in Programs |-> "down"] /\ pfp = [p \in Programs |-> NoFile]
  /\ port = [p \in Programs |-> 0] /\ fresh = [p \in Programs |-> FALSE]

\* The file system keeps a file while a name or a stream refers to it.
Written ==
  {dir[n] : n \in Names} \union {rfp[w] : w \in Writers}
    \union {wfp[w] : w \in Writers}

InUse == Written \union {pfp[p] : p \in Programs}

\* A file that only programs still have open will not change any more. One
\* that they look a single key up in may as well be reduced to its line.
Gist(file, k) == IF Found(file, k) THEN LineOf(k, Lookup(file, k)) ELSE <<>>

Sought(f) == {KeyOf[p] : p \in {q \in Programs : pfp[q] = f}}

Kept(d) ==
  [f \in Files |->
     IF f \in Written' THEN d[f]
     ELSE IF Sought(f)' = {} THEN <<>>
     ELSE IF \E k \in Keys : Sought(f)' = {k}
          THEN Gist(d[f], CHOOSE k \in Keys : Sought(f)' = {k})
     ELSE d[f]]

\* What the settings are: those of the file or, while it is being replaced,
\* those of the copy.
Current ==
  [k \in Keys |->
     IF dir["config"] # NoFile THEN Lookup(data[dir["config"]], k)
     ELSE IF dir["temp"] # NoFile THEN Lookup(data[dir["temp"]], k)
     ELSE Absent]

\* fopen(name, "wb"): the file is emptied, or a new one is made.
OpenEmpty(w, name) ==
  LET f == IF dir[name] # NoFile THEN dir[name]
           ELSE CHOOSE g \in Files : g \notin InUse IN
  /\ wfp' = [wfp EXCEPT ![w] = f]
  /\ dir' = [dir EXCEPT ![name] = f]
  /\ data' = [data EXCEPT ![f] = <<>>]

-----------------------------------------------------------------------------
(* ini_puts. *)

WMove(w, from, to) == wpc[w] = from /\ wpc' = [wpc EXCEPT ![w] = to]

Key(w) == wreq[w][1]
Val(w) == wreq[w][2]

\* Mistake: key and value are passed the wrong way round.
PAskSwapped(w, k, v) ==
  /\ WMove(w, "idle", "open")
  /\ wreq' = [wreq EXCEPT ![w] = <<v, k>>]
  /\ UNCHANGED <<files, rfp, wfp, snap>>

\* handle_msg: SET_TCP_PORT for one of the two ports.
PAsk(w, k, v) ==
  /\ WMove(w, "idle", "open")
  /\ wreq' = [wreq EXCEPT ![w] = <<k, v>>]
  /\ UNCHANGED <<files, rfp, wfp, snap>>

\* ini_openread. Any failure is taken for a missing file (minIni.c 639); only
\* that one is modelled, not a lack of descriptors or rights.
POpen(w) ==
  /\ WMove(w, "open", IF dir["config"] = NoFile THEN "create" ELSE "read")
  /\ rfp' = [rfp EXCEPT ![w] = dir["config"]]
  /\ UNCHANGED <<files, wreq, wfp, snap>>

\* The file does not exist: make a new one ...
PCreate(w) ==
  /\ WMove(w, "create", "fill")
  /\ OpenEmpty(w, "config")
  /\ UNCHANGED <<wreq, rfp, snap>>

\* ... with this key only.
PFill(w) ==
  /\ WMove(w, "fill", "stored")
  /\ data' = [data EXCEPT ![wfp[w]] = Overwrite(@, 1, LineOf(Key(w), Val(w)))]
  /\ wfp' = [wfp EXCEPT ![w] = NoFile]
  /\ UNCHANGED <<dir, wreq, rfp, snap>>

\* getkeystring, and the two short cuts: nothing to do, or a line as long as
\* the old one.
PRead(w) ==
  LET file == data[rfp[w]]
      old  == Lookup(file, Key(w)) IN
  /\ WMove(w, "read",
       IF old = Val(w) THEN "stored"
       ELSE IF old # Absent /\ Width[old] = Width[Val(w)] THEN "reopen"
       ELSE "temp")
  /\ snap' = [snap EXCEPT ![w] = IF wpc'[w] = "stored" THEN <<>> ELSE file]
  /\ rfp' = [rfp EXCEPT ![w] = NoFile]
  /\ UNCHANGED <<files, wreq, wfp>>

PReopen(w) ==
  /\ dir["config"] # NoFile
  /\ WMove(w, "reopen", "patch")
  /\ wfp' = [wfp EXCEPT ![w] = dir["config"]]
  /\ UNCHANGED <<files, wreq, rfp, snap>>

\* The new line is written where the old one was.
PPatch(w) ==
  /\ WMove(w, "patch", "stored")
  /\ data' = [data EXCEPT ![wfp[w]] =
                Overwrite(@, First(snap[w], Key(w)), LineOf(Key(w), Val(w)))]
  /\ wfp' = [wfp EXCEPT ![w] = NoFile]
  /\ snap' = [snap EXCEPT ![w] = <<>>]
  /\ UNCHANGED <<dir, wreq, rfp>>

\* The copy has the name of the file with a '~' for its last character.
PTemp(w) ==
  /\ WMove(w, "temp", "copy")
  /\ OpenEmpty(w, "temp")
  /\ UNCHANGED <<wreq, rfp, snap>>

\* close_rename: the copy is complete when its stream is closed, ...
PCopy(w) ==
  /\ WMove(w, "copy", "remove")
  /\ data' = [data EXCEPT ![wfp[w]] =
                Overwrite(@, 1, Replace(snap[w], Key(w), Val(w)))]
  /\ wfp' = [wfp EXCEPT ![w] = NoFile]
  /\ snap' = [snap EXCEPT ![w] = <<>>]
  /\ UNCHANGED <<dir, wreq, rfp>>

\* ... the file is removed ...
PRemove(w) ==
  /\ WMove(w, "remove", "rename")
  /\ dir' = [dir EXCEPT !["config"] = NoFile]
  /\ UNCHANGED <<wreq, rfp, wfp, snap>>
  /\ data' = Kept(data)

\* ... and the copy takes its name. Nobody looks whether these succeed.
PRename(w) ==
  /\ WMove(w, "rename", "stored")
  /\ dir' = IF dir["temp"] = NoFile THEN dir
            ELSE [dir EXCEPT !["config"] = dir["temp"], !["temp"] = NoFile]
  /\ UNCHANGED <<wreq, rfp, wfp, snap>>
  /\ data' = Kept(data)

\* Mistake: nobody looks whether fopen has succeeded.
PFailsUnnoticed(w) ==
  /\ wpc[w] \in {"create", "reopen", "temp"}
  /\ wpc' = [wpc EXCEPT ![w] =
       [create |-> "fill", reopen |-> "patch", temp |-> "copy"][@]]
  /\ UNCHANGED <<files, wreq, rfp, wfp, snap>>

\* fopen for writing fails: for want of rights or space, or of the file.
PFails(w) ==
  /\ wpc[w] \in {"create", "reopen", "temp"}
  /\ wpc' = [wpc EXCEPT ![w] = "refused"]
  /\ snap' = [snap EXCEPT ![w] = <<>>]
  /\ UNCHANGED <<files, wreq, rfp, wfp>>

\* The result is 1 if the value was stored and 0 if it was refused.
PReturn(w) ==
  /\ wpc[w] \in {"stored", "refused"}
  /\ wpc' = [wpc EXCEPT ![w] = "idle"]
  /\ wreq' = [wreq EXCEPT ![w] = <<>>]
  /\ UNCHANGED <<files, rfp, wfp, snap>>

Put(w) ==
  \/ \E k \in Keys, v \in Values : PAsk(w, k, v)
  \/ POpen(w) \/ PCreate(w) \/ PFill(w) \/ PRead(w) \/ PReopen(w)
  \/ PPatch(w) \/ PTemp(w) \/ PCopy(w) \/ PRemove(w) \/ PRename(w)
  \/ PFails(w) \/ PReturn(w)

\* The process dies; what its streams have buffered is lost. It is started
\* again by hand.
Crash ==
  /\ MayCrash /\ \E w \in Writers : wpc[w] # "idle"
  /\ wpc' = [w \in Writers |-> "idle"] /\ wreq' = [w \in Writers |-> <<>>]
  /\ rfp' = [w \in Writers |-> NoFile] /\ wfp' = [w \in Writers |-> NoFile]
  /\ snap' = [w \in Writers |-> <<>>]
  /\ UNCHANGED dir
  /\ data' = Kept(data)

-----------------------------------------------------------------------------
(* Programs that start, and listen on the port of the file.                *)

\* ini_getl, its first half: ini_openread.
SOpen(p) ==
  /\ ppc[p] = "down" /\ ppc' = [ppc EXCEPT ![p] = "read"]
  /\ pfp' = [pfp EXCEPT ![p] = dir["config"]]
  /\ UNCHANGED <<data, port>>

\* create_listen_socket takes a short, and sin_port has 16 bits: of 65536 is
\* left 0, which stands for any free port.
PortNumbers == 65536
Listens(n) == n % PortNumbers

Got(p) == IF pfp[p] = NoFile THEN Absent ELSE Lookup(data[pfp[p]], KeyOf[p])

\* Mistake: the other program's key is looked up.
SReadsOther(p) ==
  /\ ppc[p] = "read" /\ ppc' = [ppc EXCEPT ![p] = "up"]
  /\ port' = [port EXCEPT ![p] =
       IF pfp[p] = NoFile THEN Listens(Number[Absent])
       ELSE Listens(Number[Lookup(data[pfp[p]],
                                  CHOOSE k \in Keys : k # KeyOf[p])])]
  /\ pfp' = [pfp EXCEPT ![p] = NoFile]
  /\ data' = Kept(data)

\* The other half: getkeystring reads the file, which is then closed. The
\* program listens on what it has found.
SRead(p) ==
  /\ ppc[p] = "read" /\ ppc' = [ppc EXCEPT ![p] = "up"]
  /\ port' = [port EXCEPT ![p] = Listens(Number[Got(p)])]
  /\ pfp' = [pfp EXCEPT ![p] = NoFile]
  /\ data' = Kept(data)

\* It is stopped by hand.
SStop(p) ==
  /\ ppc[p] = "up" /\ ppc' = [ppc EXCEPT ![p] = "down"]
  /\ port' = [port EXCEPT ![p] = 0]
  /\ UNCHANGED <<data, pfp>>

-----------------------------------------------------------------------------
Stores == UNCHANGED servers /\ ((\E w \in Writers : Put(w)) \/ Crash)

Serves ==
  /\ UNCHANGED <<dir, writers>>
  /\ \E p \in Programs : SOpen(p) \/ SRead(p) \/ SStop(p)

\* While a program starts, what it would read is compared with its setting.
Watch ==
  fresh' = [p \in Programs |->
    /\ ppc'[p] = "read"
    /\ Got(p)' = Current'[KeyOf[p]] \/ (fresh[p] /\ Got(p)' = Got(p))]

Next == (Stores \/ Serves) /\ Watch

Spec == Init /\ [][Next]_vars

-----------------------------------------------------------------------------
(* Properties. *)

WPcs == {"idle", "open", "create", "fill", "read", "reopen", "patch", "temp",
         "copy", "remove", "rename", "stored", "refused"}

\* minIni.c uses no stream that it has not open.
StreamsAreOpen ==
  \A w \in Writers :
    /\ wpc[w] = "read" => rfp[w] # NoFile
    /\ wpc[w] \in {"fill", "patch", "copy"} => wfp[w] # NoFile

TypeOK ==
  /\ StreamsAreOpen
  /\ dir \in [Names -> Files \union {NoFile}]
  /\ \A f \in Files : \A n \in 1 .. Len(data[f]) :
       data[f][n] # Hole => data[f][n] \in Keys \X Values \X Nat
  /\ wpc \in [Writers -> WPcs]
  /\ \A w \in Writers : wreq[w] = <<>> \/ wreq[w] \in Keys \X Values
  /\ rfp \in [Writers -> Files \union {NoFile}]
  /\ wfp \in [Writers -> Files \union {NoFile}]
  /\ ppc \in [Programs -> {"down", "read", "up"}]
  /\ pfp \in [Programs -> Files \union {NoFile}]
  /\ port \in [Programs -> 0 .. PortNumbers - 1]
  /\ fresh \in [Programs -> BOOLEAN]

\* The process has died between the removal and the renaming.
Orphan ==
  /\ dir["config"] = NoFile /\ dir["temp"] # NoFile
  /\ \A w \in Writers : wpc[w] # "rename"

\* With one writer the three steps of a replacement look like one: the file
\* and its copy together always say what was stored, and success is reported
\* of nothing else. Settings are lost only after a crash between the removal
\* and the renaming, when the next ini_puts does not look for the copy.
Store == INSTANCE Settings WITH
  value   <- Current,
  request <- wreq,
  applied <- [w \in Writers |-> wpc[w] \in {"rename", "stored"}],
  orphan  <- Orphan

SettingsAreKept == Store!Spec

\* A program that starts while ports are being stored listens on a port that
\* was set at some moment of its start, as far as 16 bits hold it. Only when
\* the file had no name at the moment it was opened does the program listen
\* on 65535, the default -1, although a port was set all the time.
ListensOnASetting ==
  [][\A p \in Programs :
       ppc[p] = "read" /\ ppc'[p] = "up" =>
         \/ fresh[p] /\ port'[p] = Listens(Number[Got(p)])
         \/ pfp[p] = NoFile /\ port'[p] = Listens(Number[Absent])]_vars

\* minIni.c 626: ini_puts returns "1 if successful, otherwise 0". When it
\* returns 1, and nobody else is at work on the file, there is a file.
SuccessLeavesAFile ==
  \A w \in Writers :
    wpc[w] = "stored" /\ (\A v \in Writers \ {w} : wpc[v] = "idle")
      => dir["config"] # NoFile
=============================================================================
