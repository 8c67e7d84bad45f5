------------------------------ MODULE OsVerbs ------------------------------
(***************************************************************************)
(* The os package.  A program compiled to C gets it from the runtime       *)
(* (bbb_file.c, bbb_os.c, behind native_pkgs/os/os.3b), a script from the  *)
(* host functions of bcosprims.c.  Both are written over C's stdio, which  *)
(* is modelled from how they use it.  The same program makes its calls in  *)
(* two worlds, native and script, which start alike.                       *)
(*                                                                         *)
(* A world has the content of one file (Absent when there is none), the    *)
(* entries of a directory, two FILEs - "io", which open may open, and      *)
(* "out", standard output - and room on its disk.  A stream is a FILE's    *)
(* name with the flag the runtime keeps beside it, or Null.                *)
(***************************************************************************)
EXTENDS Integers, Sequences, FiniteSets, SequencesExt

CONSTANTS Texts,        \* what is written
          ReadSizes,    \* how much is read at once
          SeekOffsets,      \* how far is sought
          Disk,         \* how many bytes the file, and what takes standard output, can hold
          Listings,     \* directories, as readdir returns them
          ListDirMax,   \* the most entries that are listed
          MaxCalls,     \* how many calls a program makes
          Unusual       \* calls on which the two are known to differ: "at-end", "close-out"

ASSUME OsAssumption ==
  /\ Texts \subseteq Seq(STRING) /\ Listings \subseteq Seq(STRING) /\ ReadSizes \subseteq Nat /\ SeekOffsets \subseteq Int
  /\ Disk \in Nat /\ ListDirMax \in Nat

VARIABLES native, script,   \* the two worlds, each with what its last call returned
          held,             \* what open returned in each, while the program has not closed it
          calls,            \* how many calls it made
          lines             \* the lines read since the file was opened for reading, if nothing else was done

osvars == << native, script, held, calls, lines >>

Absent == << "absent" >>
Null   == [file |-> "none", owned |-> FALSE]
NoLines == << << "none" >> >>
Error  == -1
Bool(b) == IF b THEN 1 ELSE 0

(***************************************************************************)
(* stdio.  Written bytes wait in the FILE until they are flushed.          *)
(***************************************************************************)
Closed == [mode |-> "closed", pos |-> 0, pending |-> << >>, eof |-> FALSE, err |-> FALSE]
File(mode) == [Closed EXCEPT !.mode = mode]
Where(w, p) == IF w.fp[p].mode = "ab" THEN Len(w.content[p]) ELSE w.fp[p].pos
Overwritten(old, at, new) ==
  [i \in 1 .. (IF at + Len(new) > Len(old) THEN at + Len(new) ELSE Len(old)) |->
     IF i > at /\ i <= at + Len(new) THEN new[i - at] ELSE IF i <= Len(old) THEN old[i] ELSE "hole"]
\* A world after a call, and what the call returned.
Returns(w, r) == [w EXCEPT !.ret = r]
Used(w, p, content, file, r) ==
  [content |-> [w.content EXCEPT ![p] = content], dir |-> w.dir, fp |-> [w.fp EXCEPT ![p] = file], ret |-> r]
CanFlush(w, p) == w.fp[p].pending = << >> \/ Where(w, p) + Len(w.fp[p].pending) <= Disk
Flushed(w, p) ==
  IF w.fp[p].pending = << >> THEN w
  ELSE IF CanFlush(w, p)
       THEN Used(w, p, Overwritten(w.content[p], Where(w, p), w.fp[p].pending),
                 [w.fp[p] EXCEPT !.pos = Where(w, p) + Len(w.fp[p].pending), !.pending = << >>], w.ret)
       ELSE Used(w, p, w.content[p], [w.fp[p] EXCEPT !.pending = << >>, !.err = TRUE], w.ret)
fflush(w, p) == Returns(Flushed(w, p), IF CanFlush(w, p) THEN 0 ELSE Error)
fclose(w, p) == LET v == fflush(w, p) IN Used(v, p, v.content[p], Closed, v.ret)
fopen(w, mode) ==
  IF mode \in {"rb", "r+b"} /\ w.content["io"] = Absent THEN Returns(w, "none")
  ELSE IF mode = "wb" \/ w.content["io"] = Absent
       THEN Used(w, "io", << >>, File(mode), "io")
       ELSE Used(w, "io", w.content["io"], File(mode), "io")
fwrite(w, p, text) ==
  IF w.fp[p].mode = "rb" THEN Used(w, p, w.content[p], [w.fp[p] EXCEPT !.err = TRUE], 0)
  ELSE Used(w, p, w.content[p], [w.fp[p] EXCEPT !.pending = w.fp[p].pending \o text], Len(text))
Readable(w, p) == w.fp[p].mode \in {"rb", "r+b"}
Ahead(w, p) == SubSeq(w.content[p], w.fp[p].pos + 1, Len(w.content[p]))
fread(w0, p, n) ==
  IF ~Readable(w0, p) THEN Used(w0, p, w0.content[p], [w0.fp[p] EXCEPT !.err = TRUE], << >>)
  ELSE LET w    == Flushed(w0, p)
           k    == IF n <= Len(Ahead(w, p)) THEN n ELSE Len(Ahead(w, p))
           file == [w.fp[p] EXCEPT !.pos = w.fp[p].pos + k, !.eof = w.fp[p].eof \/ k < n]
       IN  Used(w, p, w.content[p], file, SubSeq(Ahead(w, p), 1, k))
Seekable(p) == p = "io"
fseek(w0, p, offset, base) ==
  LET w  == Flushed(w0, p)
      to == offset + (CASE base = "set" -> 0 [] base = "cur" -> Where(w, p) [] OTHER -> Len(w.content[p]))
  IN  IF ~Seekable(p) \/ ~CanFlush(w0, p) \/ to < 0 THEN Returns(w, Error)
      ELSE Used(w, p, w.content[p], [w.fp[p] EXCEPT !.pos = to, !.eof = FALSE], 0)
ftell(w, p) == Returns(w, IF Seekable(p) THEN Where(w, p) + Len(w.fp[p].pending) ELSE Error)
\* What fgetc returns up to a new line or the end, with where that leaves the FILE.
UpTo(s) == IF "\n" \in Range(s) THEN CHOOSE i \in DOMAIN s : s[i] = "\n" /\ \A j \in 1 .. i - 1 : s[j] # "\n" ELSE Len(s)
GetLine(w0, p) ==
  IF ~Readable(w0, p) THEN Used(w0, p, w0.content[p], [w0.fp[p] EXCEPT !.err = TRUE], << >>)
  ELSE LET w    == Flushed(w0, p)
           some == Ahead(w, p)
           n    == UpTo(some)
           nl   == n > 0 /\ some[n] = "\n"
           file == [w.fp[p] EXCEPT !.pos = w.fp[p].pos + n, !.eof = w.fp[p].eof \/ ~nl]
       IN  Used(w, p, w.content[p], file, SubSeq(some, 1, IF nl THEN n - 1 ELSE n))
NoReturn(s) == IF s # << >> /\ Last(s) = "\r" THEN Front(s) ELSE s

ModeString(mode) ==
  CASE mode = 0 -> "rb" [] mode = 1 -> "wb" [] mode = 2 -> "ab" [] mode = 3 -> "r+b" [] OTHER -> "none"
Whence(origin) == CASE origin = 0 -> "set" [] origin = 1 -> "cur" [] origin = 2 -> "end" [] OTHER -> "none"

(***************************************************************************)
(* The runtime of compiled programs.                                       *)
(***************************************************************************)
bbb_stream_open(w, mode) ==
  IF ModeString(mode) = "none" THEN Returns(w, Null)
  ELSE LET o == fopen(w, ModeString(mode)) IN Returns(o, IF o.ret = "none" THEN Null ELSE [file |-> "io", owned |-> TRUE])
bbb_stream_std_get(w) == Returns(w, [file |-> "out", owned |-> FALSE])
bbb_stream_close(w, s) ==
  IF s = Null THEN Returns(w, 0)
  ELSE IF ~s.owned THEN Returns(w, 1)
  ELSE LET c == fclose(w, s.file) IN Returns(c, Bool(c.ret = 0))
bbb_stream_write(w, s, data) == IF s = Null \/ data = << >> THEN Returns(w, 0) ELSE fwrite(w, s.file, data)
bbb_stream_write_string(w, s, text) == bbb_stream_write(w, s, text)
bbb_stream_read(w, s, size) == IF s = Null \/ size = 0 THEN Returns(w, << >>) ELSE fread(w, s.file, size)
\* Mutant: the carriage return of a line stays in it.
ReadLineRaw(w, s) == IF s = Null THEN Returns(w, << >>) ELSE GetLine(w, s.file)
bbb_stream_read_line(w, s) ==
  IF s = Null THEN Returns(w, << >>) ELSE LET l == GetLine(w, s.file) IN Returns(l, NoReturn(l.ret))
bbb_stream_flush(w, s) == IF s = Null THEN Returns(w, 0) ELSE LET f == fflush(w, s.file) IN Returns(f, Bool(f.ret = 0))
bbb_stream_seek(w, s, offset, origin) ==
  IF s = Null \/ Whence(origin) = "none" THEN Returns(w, 0)
  ELSE LET k == fseek(w, s.file, offset, Whence(origin)) IN Returns(k, Bool(k.ret = 0))
bbb_stream_tell(w, s) == IF s = Null THEN Returns(w, Error) ELSE ftell(w, s.file)
bbb_stream_at_end(w, s) == Returns(w, IF s = Null THEN 1 ELSE Bool(w.fp[s.file].eof))
bbb_stream_had_error(w, s) == Returns(w, IF s = Null THEN 1 ELSE Bool(w.fp[s.file].err))
bbb_os_file_read(w) == Returns(w, IF w.content["io"] = Absent THEN << >> ELSE w.content["io"])
\* The whole content is one write; what does not fit is not written, and the call does not see that.
Stored(text) == SubSeq(text, 1, IF Len(text) <= Disk THEN Len(text) ELSE Disk)
bbb_os_file_write(w, text) == Used(w, "io", Stored(text), w.fp["io"], 1)
bbb_os_file_exists(w) == Returns(w, Bool(w.content["io"] # Absent))
\* The caller's buffer and how much of it is filled, after the first i entries.
Dots == {".", ".."}
Filled(dir) ==
  LET after[i \in 0 .. Len(dir)] ==
        IF i = 0 THEN [count |-> 0, out |-> [k \in 1 .. ListDirMax |-> ""]]
        ELSE LET b == after[i - 1]
             IN  IF b.count >= ListDirMax \/ dir[i] \in Dots THEN b
                 ELSE [count |-> b.count + 1, out |-> [b.out EXCEPT ![b.count + 1] = dir[i]]]
  IN  after
bbb_os_list_dir(w) ==
  LET filled == Filled(w.dir)[Len(w.dir)] IN Returns(w, [k \in 1 .. filled.count |-> filled.out[k]])
NoNewline(s) == IF s # << >> /\ Last(s) = "\n" THEN Front(s) ELSE s
bbb_os_exec_capture(w, output) == Returns(w, NoReturn(NoNewline(output)))

(***************************************************************************)
(* The host functions of scripts.  A stream is the FILE itself.            *)
(***************************************************************************)
bc_os_open(w, mode) ==
  IF ModeString(mode) = "none" THEN Returns(w, Null)
  ELSE LET o == fopen(w, ModeString(mode)) IN Returns(o, IF o.ret = "none" THEN Null ELSE [file |-> "io", owned |-> TRUE])
bc_os_stdout_fn(w) == Returns(w, [file |-> "out", owned |-> FALSE])
bc_os_stream_is_std(s) == s.file = "out"
bc_os_close(w, s) ==
  IF s = Null THEN Returns(w, 0)
  ELSE IF bc_os_stream_is_std(s) THEN LET f == fflush(w, s.file) IN Returns(f, Bool(f.ret = 0))
  ELSE LET c == fclose(w, s.file) IN Returns(c, Bool(c.ret = 0))
bc_os_write_string(w, s, text) == IF s = Null \/ text = << >> THEN Returns(w, 0) ELSE fwrite(w, s.file, text)
bc_os_write(w, s, data) == IF s = Null \/ data = << >> THEN Returns(w, 0) ELSE fwrite(w, s.file, data)
bc_os_read(w, s, size) == IF s = Null \/ size = 0 THEN Returns(w, << >>) ELSE fread(w, s.file, size)
bc_os_read_line(w, s) ==
  IF s = Null THEN Returns(w, << >>) ELSE LET l == GetLine(w, s.file) IN Returns(l, NoReturn(l.ret))
bc_os_flush(w, s) == IF s = Null THEN Returns(w, 0) ELSE LET f == fflush(w, s.file) IN Returns(f, Bool(f.ret = 0))
bc_os_seek(w, s, offset, origin) ==
  IF s = Null \/ Whence(origin) = "none" THEN Returns(w, 0)
  ELSE LET k == fseek(w, s.file, offset, Whence(origin)) IN Returns(k, Bool(k.ret = 0))
bc_os_tell(w, s) == IF s = Null THEN Returns(w, Error) ELSE ftell(w, s.file)
bc_os_at_end(w, s) == Returns(w, Bool(s # Null /\ w.fp[s.file].eof))
bc_os_error(w, s) == Returns(w, Bool(s = Null \/ w.fp[s.file].err))
bc_os_read_file(w) == Returns(w, IF w.content["io"] \in {Absent, << >>} THEN << >> ELSE w.content["io"])
bc_os_write_file(w, text) == Used(w, "io", Stored(text), w.fp["io"], 1)
bc_os_file_exists(w) == Returns(w, Bool(w.content["io"] # Absent))
Pushed(dir) ==
  LET after[i \in 0 .. Len(dir)] ==
        IF i = 0 THEN << >>
        ELSE IF Len(after[i - 1]) >= ListDirMax \/ dir[i] \in Dots THEN after[i - 1] ELSE Append(after[i - 1], dir[i])
  IN  after
bc_os_list_dir(w) == Returns(w, Pushed(w.dir)[Len(w.dir)])
bc_os_exec_capture(w, output) == Returns(w, NoReturn(NoNewline(output)))

(***************************************************************************)
(* A program: it calls a verb with the same arguments in both worlds, on   *)
(* standard output or on what open returned, and does not use a stream it  *)
(* closed.                                                                 *)
(***************************************************************************)
Unheld == [native |-> [file |-> "closed", owned |-> FALSE], script |-> [file |-> "closed", owned |-> FALSE]]
Std == [native |-> bbb_stream_std_get(native).ret, script |-> bc_os_stdout_fn(script).ret]
Streams == {Std, held} \ {Unheld}
Both(n, s) == calls < MaxCalls /\ calls' = calls + 1 /\ native' = n /\ script' = s
Elsewhere(st) == IF st = held THEN NoLines ELSE lines
World(text, dir) ==
  [content |-> [io |-> text, out |-> << >>], dir |-> dir, fp |-> [io |-> Closed, out |-> File("ab")], ret |-> 0]
OsInit == \E text \in Texts \cup {Absent}, dir \in Listings :
  native = World(text, dir) /\ script = World(text, dir) /\ held = Unheld /\ calls = 0 /\ lines = NoLines

Open(mode) ==
  /\ held = Unheld
  /\ Both(bbb_stream_open(native, mode), bc_os_open(script, mode))
  /\ held' = [native |-> native'.ret, script |-> script'.ret]
  /\ lines' = IF mode = 0 /\ native'.ret # Null THEN << >> ELSE NoLines
CloseStream(st) ==
  /\ st = held \/ "close-out" \in Unusual
  /\ Both(bbb_stream_close(native, st.native), bc_os_close(script, st.script))
  /\ held' = (IF st = held THEN Unheld ELSE held) /\ lines' = Elsewhere(st)
WriteString(st, text) ==
  /\ Both(bbb_stream_write_string(native, st.native, text), bc_os_write_string(script, st.script, text))
  /\ held' = held /\ lines' = Elsewhere(st)
Write(st, data) ==
  /\ Both(bbb_stream_write(native, st.native, data), bc_os_write(script, st.script, data))
  /\ held' = held /\ lines' = Elsewhere(st)
Read(st, size) ==
  /\ Both(bbb_stream_read(native, st.native, size), bc_os_read(script, st.script, size))
  /\ held' = held /\ lines' = Elsewhere(st)
ReadLine(st) ==
  /\ Both(bbb_stream_read_line(native, st.native), bc_os_read_line(script, st.script))
  /\ held' = held
  /\ lines' = IF st = held /\ lines # NoLines /\ ~native.fp["io"].eof THEN Append(lines, script'.ret) ELSE lines
Flush(st) ==
  /\ Both(bbb_stream_flush(native, st.native), bc_os_flush(script, st.script))
  /\ UNCHANGED << held, lines >>
Seek(st, offset, origin) ==
  /\ Both(bbb_stream_seek(native, st.native, offset, origin), bc_os_seek(script, st.script, offset, origin))
  /\ held' = held /\ lines' = Elsewhere(st)
Tell(st) ==
  /\ Both(bbb_stream_tell(native, st.native), bc_os_tell(script, st.script))
  /\ UNCHANGED << held, lines >>
AtEnd(st) ==
  /\ st.native # Null \/ "at-end" \in Unusual
  /\ Both(bbb_stream_at_end(native, st.native), bc_os_at_end(script, st.script))
  /\ UNCHANGED << held, lines >>
HadError(st) ==
  /\ Both(bbb_stream_had_error(native, st.native), bc_os_error(script, st.script))
  /\ UNCHANGED << held, lines >>
\* The verbs on whole files and directories, and on the output of a command.
ReadFile == Both(bbb_os_file_read(native), bc_os_read_file(script)) /\ UNCHANGED << held, lines >>
WriteFile(text) ==
  held = Unheld /\ Both(bbb_os_file_write(native, text), bc_os_write_file(script, text)) /\ UNCHANGED << held, lines >>
FileExists == Both(bbb_os_file_exists(native), bc_os_file_exists(script)) /\ UNCHANGED << held, lines >>
ListDir == Both(bbb_os_list_dir(native), bc_os_list_dir(script)) /\ UNCHANGED << held, lines >>
ExecCapture(output) ==
  Both(bbb_os_exec_capture(native, output), bc_os_exec_capture(script, output)) /\ UNCHANGED << held, lines >>

OsNext ==
  \/ \E mode \in 0 .. 4 : Open(mode)
  \/ \E st \in Streams :
       \/ CloseStream(st) \/ ReadLine(st) \/ Flush(st) \/ Tell(st) \/ AtEnd(st) \/ HadError(st)
       \/ \E text \in Texts : WriteString(st, text) \/ Write(st, text)
       \/ \E size \in ReadSizes : Read(st, size)
       \/ \E offset \in SeekOffsets, origin \in 0 .. 3 : Seek(st, offset, origin)
  \/ \E text \in Texts : WriteFile(text) \/ ExecCapture(text)
  \/ ReadFile \/ FileExists \/ ListDir

OsSpec == OsInit /\ [][OsNext]_osvars

Left(w) == [p \in {"io", "out"} |-> w.content[p] \o w.fp[p].pending]
Cuts(s) == {0, Len(s) + 1} \cup {i \in DOMAIN s : s[i] = "\n"}
\* The lines of a file are what is between its cuts, in order.
AreLinesOf(ls, s) ==
  \E cut \in [1 .. Len(ls) + 1 -> Cuts(s)] :
    /\ \A c \in Cuts(s) : \E i \in DOMAIN cut : cut[i] = c
    /\ \A i \in DOMAIN ls : cut[i] < cut[i + 1] /\ ls[i] = NoReturn(SubSeq(s, cut[i] + 1, cut[i + 1] - 1))

\* os.3b says that every verb exists in scripts "under the same name, with the
\* same signature and the same semantics".  A program gets the same results
\* from the runtime and from the host functions, and leaves the same bytes in
\* the file and on standard output, whatever it calls in whatever order; and
\* the loop os.3b prescribes, reading lines until at-end?, reads the whole
\* file: at the end the lines are the file's, each without the carriage return
\* before its end (bbb_file.c and bcosprims.c).
OsVerbsAgree ==
  /\ native.ret = script.ret /\ Left(native) = Left(script)
  /\ lines # NoLines /\ script.fp["io"].eof => AreLinesOf(lines, script.content["io"])
=============================================================================
