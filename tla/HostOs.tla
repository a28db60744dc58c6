------------------------------- MODULE HostOs -------------------------------
(***************************************************************************)
(* The files of the host as hostfsd uses them: what open, read, write,     *)
(* mkdir, unlink and listdir of the operating system do to names and       *)
(* contents.  A file is a sequence of blocks, a block the unit of one read *)
(* or write; a file that loses its name lives on for those that have it    *)
(* open.  Directories other than Root are empty.  Permissions and failures *)
(* of the disk change nothing here and are left out.                       *)
(***************************************************************************)
EXTENDS Naturals, Sequences

CONSTANTS
  Names,      \* paths, relative to the root of the service
  Root,       \* the path of that directory itself
  Blocks,     \* what a block may hold
  Hole,       \* a block that nobody wrote
  MaxFiles,   \* bound: files made in one behaviour
  FirstHost,  \* the files there are at the beginning
  NoEntry, Dir  \* what a name may stand for besides a file

(* Access modes 0, 1 and 2 of open(2), and 3, which is none of them.       *)
ReadOnly == 0
WriteOnly == 1
ReadWrite == 2
Flags == [mode : 0 .. 3, creat : BOOLEAN, trunc : BOOLEAN]

FileSystem ==
  [entry : [Names -> 1 .. MaxFiles \cup {NoEntry, Dir}], data : Seq(Seq(Blocks))]

ASSUME HostAssumption ==
  /\ Root \in Names /\ Hole \in Blocks /\ MaxFiles \in Nat
  /\ FirstHost \in FileSystem /\ Len(FirstHost.data) <= MaxFiles
  /\ \A n \in Names : FirstHost.entry[n] \in Nat => FirstHost.entry[n] <= Len(FirstHost.data)
  /\ NoEntry # Dir /\ {NoEntry, Dir} \cap Nat = {}
  /\ Names \cap (Nat \cup {NoEntry, Dir}) = {}

Readable(mode) == mode \in {ReadOnly, ReadWrite}
Writable(mode) == mode \in {WriteOnly, ReadWrite}

(* open(2): why it fails, and what it leaves behind when it does not.      *)
OpenError(host, n, flags) ==
  LET e == host.entry[n] IN
  CASE e = NoEntry /\ ~flags.creat -> "NOENT"
    [] e = NoEntry /\ flags.creat /\ Len(host.data) = MaxFiles -> "IO"
    [] e = Dir /\ (flags.mode # ReadOnly \/ flags.creat \/ flags.trunc) -> "IO"
    [] OTHER -> "OK"

WithFile(host, n) ==
  IF host.entry[n] # NoEntry THEN host
  ELSE [entry |-> [host.entry EXCEPT ![n] = Len(host.data) + 1],
        data |-> Append(host.data, <<>>)]

Opened(host, n, flags) ==
  LET h == WithFile(host, n) IN
  IF flags.trunc /\ h.entry[n] # Dir
    THEN [h EXCEPT !.data[h.entry[n]] = <<>>] ELSE h

(* read(2) and write(2) of one block at a position.                        *)
AtEnd(host, f, pos) == pos >= Len(host.data[f])
BlockAt(host, f, pos) == host.data[f][pos + 1]
Written(host, f, pos, b) ==
  LET old == host.data[f]
      len == IF pos < Len(old) THEN Len(old) ELSE pos + 1
  IN [host EXCEPT !.data[f] =
        [i \in 1 .. len |-> IF i = pos + 1 THEN b
                            ELSE IF i <= Len(old) THEN old[i] ELSE Hole]]

MkdirError(host, n) == IF host.entry[n] # NoEntry THEN "EXIST" ELSE "OK"
WithDir(host, n) == [host EXCEPT !.entry[n] = Dir]

UnlinkError(host, n) ==
  IF host.entry[n] = Dir THEN "EXIST" ELSE IF host.entry[n] = NoEntry THEN "NOENT" ELSE "OK"
Unlinked(host, n) == [host EXCEPT !.entry[n] = NoEntry]

ListError(host, n) ==
  IF host.entry[n] = NoEntry THEN "NOENT" ELSE IF host.entry[n] = Dir THEN "OK" ELSE "INVAL"
Listing(host, n) ==
  IF n = Root THEN {m \in Names \ {Root} : host.entry[m] # NoEntry} ELSE {}
=============================================================================
