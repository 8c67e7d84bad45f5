---------------------------- MODULE ToolsProofs ----------------------------
(***************************************************************************)
(* Proofs about the tools around the package compiler: what the language   *)
(* server leaves on the editor's screen, and what `3b run` executes.       *)
(***************************************************************************)
EXTENDS LspServer, BuildDriver, SequenceTheorems, WellFoundedInduction, TLAPS

(***************************************************************************)
(* Sequences of whatever.                                                  *)
(***************************************************************************)
IsSeq(s) == \E S : s \in Seq(S)

\* A message put at the end of a queue.
LEMMA Appended ==
  ASSUME NEW s, IsSeq(s), NEW x
  PROVE  /\ IsSeq(Append(s, x)) /\ Len(Append(s, x)) = Len(s) + 1 /\ Len(s) \in Nat
         /\ \A i \in 1 .. Len(s) : Append(s, x)[i] = s[i]
         /\ Append(s, x)[Len(s) + 1] = x
<1>1. PICK S : s \in Seq(S)
  BY DEF IsSeq
<1>2. s \in Seq(S \cup {x}) /\ x \in S \cup {x}
  BY <1>1
<1> QED
  BY <1>2 DEF IsSeq

\* A message taken from the front of a queue.
LEMMA Taken ==
  ASSUME NEW s, IsSeq(s), s # << >>
  PROVE  /\ IsSeq(Tail(s)) /\ Len(Tail(s)) = Len(s) - 1 /\ Len(s) \in Nat \ {0}
         /\ \A i \in 1 .. Len(Tail(s)) : Tail(s)[i] = s[i + 1] /\ i + 1 \in 1 .. Len(s)
         /\ Head(s) = s[1] /\ 1 \in 1 .. Len(s)
<1>1. PICK S : s \in Seq(S)
  BY DEF IsSeq
<1> QED
  BY <1>1 DEF IsSeq

\* A record put in front of a list.
LEMMA Prepended ==
  ASSUME NEW s, IsSeq(s), NEW x
  PROVE  /\ IsSeq(<< x >> \o s) /\ Len(s) \in Nat /\ DOMAIN s = 1 .. Len(s)
         /\ DOMAIN (<< x >> \o s) = 1 .. Len(s) + 1
         /\ (<< x >> \o s)[1] = x
         /\ \A i \in 1 .. Len(s) : (<< x >> \o s)[i + 1] = s[i]
<1>1. PICK S : s \in Seq(S)
  BY DEF IsSeq
<1>2. s \in Seq(S \cup {x}) /\ << x >> \in Seq(S \cup {x}) /\ Len(<< x >>) = 1 /\ << x >>[1] = x
  BY <1>1
<1>3. << x >> \o s \in Seq(S \cup {x}) /\ Len(<< x >> \o s) = 1 + Len(s) /\ Len(s) \in Nat
  BY <1>2
<1>4. \A i \in 1 .. 1 + Len(s) : (<< x >> \o s)[i] = IF i <= 1 THEN << x >>[i] ELSE s[i - 1]
  BY <1>2, <1>3
<1>5. (<< x >> \o s)[1] = x
  BY <1>2, <1>3, <1>4
<1>6. \A i \in 1 .. Len(s) : (<< x >> \o s)[i + 1] = s[i]
  BY <1>3, <1>4
<1>7. DOMAIN (<< x >> \o s) = 1 .. Len(s) + 1
  BY <1>3
<1> QED
  BY <1>2, <1>3, <1>5, <1>6, <1>7 DEF IsSeq

\* One element of a list replaced.
LEMMA Replaced ==
  ASSUME NEW s, IsSeq(s), NEW i \in DOMAIN s, NEW x
  PROVE  IsSeq([s EXCEPT ![i] = x])
<1>1. PICK S : s \in Seq(S)
  BY DEF IsSeq
<1>2. [s EXCEPT ![i] = x] \in Seq(S \cup {x})
  BY <1>1
<1> QED
  BY <1>2 DEF IsSeq

LEMMA Single ==
  ASSUME NEW x
  PROVE  IsSeq(<< x >>)
<1>1. << x >> \in Seq({x})
  OBVIOUS
<1> QED
  BY <1>1 DEF IsSeq

\* A set of numbers has a least one.
LEMMA LeastOf ==
  ASSUME NEW S \in SUBSET Nat, S # {}
  PROVE  \E i \in S : \A j \in S : i <= j
<1>1. \E x \in S : \A y \in S : ~(<< y, x >> \in OpToRel(<, Nat))
  BY NatLessThanWellFounded, WFMin, Zenon
<1>2. \A x, y \in Nat : y < x => << y, x >> \in OpToRel(<, Nat)
  BY Zenon DEF OpToRel
<1>3. \E x \in S : \A y \in S : ~(y < x)
  BY <1>1, <1>2, Zenon
<1> QED
  BY <1>3

(***************************************************************************)
(* The language server.                                                    *)
(***************************************************************************)
\* When the open documents of a directory are as they are on disk, and no
\* other directory has a file of the same base name, the compiler sees the
\* files.
LEMMA OverlaysAsSaved ==
  ASSUME NEW f, NEW ds, NEW d \in Dirs, DOMAIN ds \subseteq Paths,
         \A p \in DOMAIN ds : p[1] = d => ds[p] = f[p],
         \A p \in DOMAIN ds : p[1] = d => \A q \in Dirs \ {d} : f[<< q, p[2] >>] = NoFile
  PROVE  SourcesSeen(f, build_overlays_for_dir(ds, d)) = SourcesSeen(f, << >>)
<1> DEFINE mine == { p \in DOMAIN ds : p[1] = d }
           ov == [b \in { p[2] : p \in mine } |-> ds[<< d, b >>]]
<1>1. ASSUME NEW q \in Paths, f[q] # NoFile, q[2] \in DOMAIN ov
      PROVE  ov[q[2]] = f[q]
  <2>1. PICK p \in DOMAIN ds : p[1] = d /\ p[2] = q[2]
    BY <1>1
  <2>2. /\ q = << q[1], q[2] >> /\ q[1] \in Dirs
        /\ p = << p[1], p[2] >>
    BY <1>1, <2>1 DEF Paths
  <2>3. q[1] = d
    BY <1>1, <2>1, <2>2
  <2>4. q = p
    BY <2>1, <2>2, <2>3
  <2>5. ov[q[2]] = ds[<< d, q[2] >>]
    BY <1>1
  <2> QED
    BY <2>1, <2>2, <2>3, <2>4, <2>5
<1>2. build_overlays_for_dir(ds, d) = ov
  BY DEF build_overlays_for_dir
<1> HIDE DEF ov
<1>3. \A q \in Paths : (IF f[q] # NoFile /\ q[2] \in DOMAIN ov THEN ov[q[2]] ELSE f[q]) = f[q]
  BY <1>1
<1>4. SourcesSeen(f, ov) = [q \in Paths |-> f[q]]
  BY <1>3 DEF SourcesSeen, overlay_lookup
<1>5. SourcesSeen(f, << >>) = [q \in Paths |-> f[q]]
  BY DEF SourcesSeen, overlay_lookup
<1> QED
  BY <1>2, <1>4, <1>5

\* Notifications are about files the editor may open, and so are the documents.
InboxOK == /\ IsSeq(inbox)
           /\ \A i \in 1 .. Len(inbox) : inbox[i].method \in Notifications => inbox[i].path \in DOMAIN Editable
ServerOK == /\ DOMAIN docs \subseteq DOMAIN Editable
            /\ IsSeq(published)
            /\ shown = [p \in Paths |-> shown[p]]
            /\ fresh \subseteq Dirs
\* The editor shows what a check of the saved files reports: the part of the
\* invariant that holds of every compiler.
CheckOnDisk(d) == lib3b_check_package_with_overlays(disk, << >>, d)
EditorShowsTheCheck ==
  \A d \in fresh : Saved(d) /\ NoClash(d) =>
    /\ d \in own => \A b \in Range(Bases) : shown[<< d, b >>] = group_by_file(CheckOnDisk(d), << d, b >>)
    /\ CheckOnDisk(d).ok => d \in DOMAIN cache /\ cache[d].symbols = CheckOnDisk(d).symbols
\* The inductive invariant: the two properties need each other, and the shape
\* of what they talk about.
LspInv == InboxOK /\ ServerOK /\ NoGhostDiagnostics /\ EditorShowsTheCheck

\* Checking a directory: what is published of it and what is withdrawn.
LEMMA CheckKeeps ==
  ASSUME LspInv, NEW ds, DOMAIN ds \subseteq DOMAIN Editable, NEW p \in DOMAIN Editable,
         handle_check_notification(ds, p), docs' = ds, disk' = disk
  PROVE  ServerOK' /\ NoGhostDiagnostics' /\ EditorShowsTheCheck'
<1> DEFINE d == p[1]
           r == lib3b_check_package_with_overlays(disk, build_overlays_for_dir(ds, d), d)
           paths == Grouped(r) \cup {p}
           gone == PublishedOf(d) \ paths
<1>1. /\ shown' = [q \in Paths |-> IF q \in paths THEN group_by_file(r, q) ELSE IF q \in gone THEN {} ELSE shown[q]]
      /\ published' = published_find_or_create(d, paths)
      /\ cache' = IF r.ok THEN symbol_cache_update(d, r, cache) ELSE cache
      /\ fresh' = (IF ds = docs THEN fresh ELSE {}) \cup {d}
      /\ own' = { e \in IF ds = docs THEN own \ {d} ELSE {} : ~Disturbs(d, paths, e) } \cup { e \in {d} : Alone(d) }
  BY DEF handle_check_notification, check_and_publish, send_publish, CheckedNow
<1>2. p \in Paths /\ d \in Dirs /\ DOMAIN ds \subseteq Paths
  BY EditorAssumption DEF Paths
<1> HIDE DEF r
<1>p. \A q \in Paths : q \notin paths => group_by_file(r, q) = {}
  BY DEF Grouped, group_by_file
<1>q. \A i \in DOMAIN published : published[i].dir = d => published[i].paths \subseteq PublishedOf(d)
  BY DEF PublishedOf, DirEntry
<1>3. IsSeq(published')
      /\ (\E i \in DOMAIN published' : published'[i].paths = paths)
      /\ (\A i \in DOMAIN published : published[i].dir # d => \E j \in DOMAIN published' : published'[j] = published[i])
  <2>1. CASE DirEntry(d) = {}
    <3> DEFINE new == [dir |-> d, paths |-> paths]
    <3>1. published' = << new >> \o published
      BY <1>1, <2>1 DEF published_find_or_create
    <3>2. IsSeq(published)
      BY DEF LspInv, ServerOK
    <3>3. new.paths = paths
      OBVIOUS
    <3> HIDE DEF new, paths, d
    <3>4. /\ IsSeq(<< new >> \o published) /\ Len(published) \in Nat /\ DOMAIN published = 1 .. Len(published)
          /\ DOMAIN (<< new >> \o published) = 1 .. Len(published) + 1
          /\ (<< new >> \o published)[1] = new
          /\ \A i \in 1 .. Len(published) : (<< new >> \o published)[i + 1] = published[i]
      BY <3>2, Prepended
    <3>5. 1 \in 1 .. Len(published) + 1 /\ \A i \in 1 .. Len(published) : i + 1 \in 1 .. Len(published) + 1
      BY <3>4
    <3> QED
      BY <3>1, <3>3, <3>4, <3>5
  <2>2. CASE DirEntry(d) # {}
    <3> DEFINE k == CHOOSE i \in DirEntry(d) : TRUE
               new == [dir |-> d, paths |-> paths]
    <3>1. k \in DirEntry(d) /\ k \in DOMAIN published /\ published[k].dir = d
      BY <2>2 DEF DirEntry
    <3>2. published' = [published EXCEPT ![k] = new]
      BY <1>1, <2>2 DEF published_find_or_create
    <3>3. new.paths = paths /\ IsSeq(published)
      BY DEF LspInv, ServerOK
    <3> HIDE DEF new, paths, k, d
    <3>4. IsSeq(published') /\ DOMAIN published' = DOMAIN published /\ published'[k] = new
      BY <3>1, <3>2, <3>3, Replaced
    <3>5. \A i \in DOMAIN published : i # k => published'[i] = published[i]
      BY <3>2
    <3> QED
      BY <3>1, <3>3, <3>4, <3>5
  <2> QED
    BY <2>1, <2>2
<1>4. ServerOK'
  <2>1. shown' = [q \in Paths |-> shown'[q]]
    BY <1>1
  <2> QED
    BY <1>1, <1>2, <1>3, <2>1 DEF ServerOK, LspInv
<1>5. NoGhostDiagnostics'
  <2> SUFFICES ASSUME NEW q \in Paths, shown'[q] # {}
               PROVE  \E i \in DOMAIN published' : q \in published'[i].paths
    BY DEF NoGhostDiagnostics
  <2>1. CASE q \in paths
    BY <2>1, <1>3
  <2>2. CASE q \notin paths
    <3>1. q \notin PublishedOf(d) /\ shown[q] # {}
      BY <1>1, <2>2
    <3>2. PICK i \in DOMAIN published : q \in published[i].paths
      BY <3>1 DEF LspInv, NoGhostDiagnostics
    <3>3. published[i].dir # d
      BY <3>1, <3>2, <1>q
    <3> QED
      BY <3>2, <3>3, <1>3
  <2> QED
    BY <2>1, <2>2
<1>6. EditorShowsTheCheck'
  <2>0. \A e : CheckOnDisk(e)' = CheckOnDisk(e)
    BY DEF CheckOnDisk, lib3b_check_package_with_overlays
  <2> SUFFICES ASSUME NEW e \in fresh', Saved(e)', NoClash(e)'
               PROVE  /\ e \in own' => \A b \in Range(Bases) : shown'[<< e, b >>] = group_by_file(CheckOnDisk(e), << e, b >>)
                      /\ CheckOnDisk(e).ok => e \in DOMAIN cache' /\ cache'[e].symbols = CheckOnDisk(e).symbols
    BY <2>0 DEF EditorShowsTheCheck
  <2>1. CASE e = d
    <3>1. r = CheckOnDisk(e)
      BY <1>2, <2>1, OverlaysAsSaved DEF r, CheckOnDisk, Saved, NoClash, lib3b_check_package_with_overlays
    <3>2. ASSUME e \in own', NEW b \in Range(Bases)
          PROVE  shown'[<< e, b >>] = group_by_file(r, << e, b >>)
      <4>1. << d, b >> \in Paths
        BY <1>2 DEF Paths
      <4>2. Alone(d)
        BY <1>1, <2>1, <3>2
      <4>3. << d, b >> \notin PublishedOf(d) => shown[<< d, b >>] = {}
        <5>1. SUFFICES ASSUME shown[<< d, b >>] # {} PROVE << d, b >> \in PublishedOf(d)
          OBVIOUS
        <5>2. PICK i \in DOMAIN published : << d, b >> \in published[i].paths
          BY <4>1, <5>1 DEF LspInv, NoGhostDiagnostics
        <5>3. published[i].dir = d
          <6>1. << d, b >>[1] = d
            OBVIOUS
          <6> QED
            BY <4>2, <5>2, <6>1 DEF Alone
        <5> QED
          BY <5>2, <5>3, <1>q
      <4> QED
        BY <1>1, <1>p, <2>1, <4>1, <4>3
    <3>3. r.ok => e \in DOMAIN cache' /\ cache'[e].symbols = r.symbols
      BY <1>1, <2>1 DEF symbol_cache_update, With
    <3> QED
      BY <3>1, <3>2, <3>3
  <2>2. CASE e # d
    <3>1. e \in fresh /\ ds = docs
      BY <1>1, <2>2
    <3>2. Saved(e) /\ NoClash(e)
      BY <3>1 DEF Saved, NoClash
    <3>3. ASSUME e \in own', NEW b \in Range(Bases)
          PROVE  shown'[<< e, b >>] = group_by_file(CheckOnDisk(e), << e, b >>)
      <4>1. e \in own /\ ~Disturbs(d, paths, e)
        BY <1>1, <2>2, <3>3
      <4>2. << e, b >> \in Paths
        BY <3>1 DEF LspInv, ServerOK, Paths
      <4>3. << e, b >> \notin PublishedOf(d) \cup paths
        <5>1. << e, b >>[1] = e
          OBVIOUS
        <5> QED
          BY <4>1, <5>1 DEF Disturbs
      <4>4. shown'[<< e, b >>] = shown[<< e, b >>]
        BY <1>1, <4>2, <4>3
      <4> QED
        BY <3>1, <3>2, <4>1, <4>4 DEF LspInv, EditorShowsTheCheck
    <3>4. CheckOnDisk(e).ok => e \in DOMAIN cache /\ cache[e].symbols = CheckOnDisk(e).symbols
      BY <3>1, <3>2 DEF LspInv, EditorShowsTheCheck
    <3>5. e \in DOMAIN cache => e \in DOMAIN cache' /\ cache'[e] = cache[e]
      BY <1>1, <2>2 DEF symbol_cache_update, With
    <3> QED
      BY <3>3, <3>4, <3>5
  <2> QED
    BY <2>1, <2>2
<1> QED
  BY <1>4, <1>5, <1>6

\* Closing a document withdraws what is shown of it.
LEMMA CloseKeeps ==
  ASSUME LspInv, NEW m, m.path \in DOMAIN Editable, handle_close(m)
  PROVE  ServerOK' /\ NoGhostDiagnostics' /\ EditorShowsTheCheck'
<1> DEFINE holders == { i \in DOMAIN published : m.path \in published[i].paths }
           first == CHOOSE i \in holders : \A j \in holders : i <= j
           less == [dir |-> published[first].dir, paths |-> published[first].paths \ {m.path}]
<1>1. /\ docs' = Without(docs, m.path) /\ fresh' = {}
      /\ holders = {} => shown' = shown /\ published' = published
      /\ holders # {} => shown' = [shown EXCEPT ![m.path] = {}] /\ published' = [published EXCEPT ![first] = less]
  BY DEF handle_close
<1>2. DOMAIN docs' \subseteq DOMAIN Editable
  BY <1>1 DEF Without, LspInv, ServerOK
<1>3. EditorShowsTheCheck'
  BY <1>1 DEF EditorShowsTheCheck
<1>4. CASE holders = {}
  BY <1>1, <1>2, <1>3, <1>4 DEF LspInv, ServerOK, NoGhostDiagnostics
<1>5. CASE holders # {}
  <2>1. first \in holders
    <3>1. PICK S : published \in Seq(S)
      BY DEF LspInv, ServerOK, IsSeq
    <3>2. holders \subseteq Nat
      BY <3>1
    <3> HIDE DEF holders
    <3>3. \E i \in holders : \A j \in holders : i <= j
      BY <1>5, <3>2, LeastOf
    <3> QED
      BY <3>3
  <2>2. first \in DOMAIN published /\ IsSeq(published) /\ shown = [q \in Paths |-> shown[q]] /\ m.path \in Paths
    BY <2>1, EditorAssumption DEF LspInv, ServerOK
  <2>3. less.paths = published[first].paths \ {m.path}
    OBVIOUS
  <2> HIDE DEF first, less
  <2>4. /\ IsSeq(published') /\ DOMAIN published' = DOMAIN published /\ published'[first] = less
        /\ \A i \in DOMAIN published : i # first => published'[i] = published[i]
    BY <1>1, <1>5, <2>2, Replaced
  <2>5. /\ shown' = [q \in Paths |-> shown'[q]] /\ shown'[m.path] = {}
        /\ \A q \in Paths : q # m.path => shown'[q] = shown[q]
    BY <1>1, <1>5, <2>2
  <2>6. ASSUME NEW q \in Paths, shown'[q] # {}
        PROVE  \E i \in DOMAIN published' : q \in published'[i].paths
    <3>1. q # m.path /\ shown[q] # {}
      BY <2>5, <2>6
    <3>2. PICK i \in DOMAIN published : q \in published[i].paths
      BY <2>6, <3>1 DEF LspInv, NoGhostDiagnostics
    <3>3. q \in published'[i].paths
      BY <2>3, <2>4, <3>1, <3>2
    <3> QED
      BY <2>4, <3>2, <3>3
  <2>7. NoGhostDiagnostics'
    BY <2>6 DEF NoGhostDiagnostics
  <2> QED
    BY <1>1, <1>2, <1>3, <2>4, <2>5, <2>7 DEF ServerOK
<1> QED
  BY <1>4, <1>5

\* Scanning the workspace reads the files as they are on disk.
LEMMA ScanKeeps ==
  ASSUME LspInv, NEW m, handle_workspace_symbol(m), disk' = disk
  PROVE  ServerOK' /\ NoGhostDiagnostics' /\ EditorShowsTheCheck'
<1> DEFINE rs == Scanned
           found == [d \in { d \in DOMAIN rs : rs[d].ok } |-> [symbols |-> rs[d].symbols, imports |-> rs[d].imports]]
<1>1. /\ UNCHANGED << shown, docs, published, fresh, own >>
      /\ cache' = cache \/ cache' = Over(found, cache)
  BY DEF handle_workspace_symbol, scan_workspace_symbols
<1>2. \A d \in DOMAIN found : found[d].symbols = CheckOnDisk(d).symbols
  BY DEF Scanned, CheckOnDisk
<1> HIDE DEF found
<1>3. \A d \in DOMAIN cache : d \in DOMAIN cache' /\ (cache'[d] = cache[d] \/ cache'[d].symbols = CheckOnDisk(d).symbols)
  BY <1>1, <1>2 DEF Over
<1>4. \A d : CheckOnDisk(d)' = CheckOnDisk(d) /\ (Saved(d)' => Saved(d)) /\ (NoClash(d)' => NoClash(d))
  BY <1>1 DEF CheckOnDisk, lib3b_check_package_with_overlays, Saved, NoClash
<1>5. EditorShowsTheCheck'
  <2> SUFFICES ASSUME NEW e \in fresh', Saved(e)', NoClash(e)'
               PROVE  /\ e \in own' => \A b \in Range(Bases) : shown'[<< e, b >>] = group_by_file(CheckOnDisk(e), << e, b >>)
                      /\ CheckOnDisk(e).ok => e \in DOMAIN cache' /\ cache'[e].symbols = CheckOnDisk(e).symbols
    BY <1>4 DEF EditorShowsTheCheck
  <2>1. e \in fresh /\ Saved(e) /\ NoClash(e)
    BY <1>1, <1>4
  <2>2. /\ e \in own => \A b \in Range(Bases) : shown[<< e, b >>] = group_by_file(CheckOnDisk(e), << e, b >>)
        /\ CheckOnDisk(e).ok => e \in DOMAIN cache /\ cache[e].symbols = CheckOnDisk(e).symbols
    BY <2>1 DEF LspInv, EditorShowsTheCheck
  <2> QED
    BY <1>1, <1>3, <2>2
<1>6. ServerOK' /\ NoGhostDiagnostics'
  BY <1>1 DEF LspInv, ServerOK, NoGhostDiagnostics
<1> QED
  BY <1>5, <1>6

\* What the editor does: it sends a message about a file it may open, and
\* forgets what was fresh when it writes a file.
LEMMA SendKeeps ==
  ASSUME LspInv, NEW m, m.method \in Notifications => m.path \in DOMAIN Editable,
         Send(m)
  PROVE  InboxOK'
<1>1. inbox' = Append(inbox, m) /\ IsSeq(inbox)
  BY DEF Send, LspInv, InboxOK
<1>2. /\ IsSeq(Append(inbox, m)) /\ Len(Append(inbox, m)) = Len(inbox) + 1 /\ Len(inbox) \in Nat
      /\ \A i \in 1 .. Len(inbox) : Append(inbox, m)[i] = inbox[i]
      /\ Append(inbox, m)[Len(inbox) + 1] = m
  BY <1>1, Appended
<1>3. \A i \in 1 .. Len(inbox) + 1 : i \in 1 .. Len(inbox) \/ i = Len(inbox) + 1
  BY <1>2
<1>4. \A i \in 1 .. Len(inbox) : inbox[i].method \in Notifications => inbox[i].path \in DOMAIN Editable
  BY DEF LspInv, InboxOK
<1> HIDE DEF Notifications
<1>5. \A i \in 1 .. Len(inbox) + 1 : inbox'[i].method \in Notifications => inbox'[i].path \in DOMAIN Editable
  BY <1>1, <1>2, <1>3, <1>4
<1> QED
  BY <1>1, <1>2, <1>5 DEF InboxOK

LEMMA EditorKeeps ==
  ASSUME LspInv, EditorNext
  PROVE  LspInv'
<1>1. ASSUME NEW m, m.method \in Notifications => m.path \in DOMAIN Editable,
             Send(m), UNCHANGED << shown, server >>,
             UNCHANGED << disk, fresh, own >> \/ fresh' = {}
      PROVE  LspInv'
  <2>1. InboxOK'
    BY <1>1, SendKeeps
  <2>2. UNCHANGED << docs, published, cache, shown >>
    BY <1>1 DEF server
  <2>3. ServerOK' /\ NoGhostDiagnostics'
    BY <1>1, <2>2 DEF LspInv, ServerOK, NoGhostDiagnostics
  <2>4. CASE UNCHANGED << disk, fresh, own >>
    <3>1. \A d : CheckOnDisk(d)' = CheckOnDisk(d) /\ Saved(d)' = Saved(d) /\ NoClash(d)' = NoClash(d)
      BY <2>2, <2>4 DEF CheckOnDisk, lib3b_check_package_with_overlays, Saved, NoClash
    <3>2. EditorShowsTheCheck' = EditorShowsTheCheck
      BY <2>2, <2>4, <3>1 DEF EditorShowsTheCheck
    <3> QED
      BY <2>1, <2>3, <3>2 DEF LspInv
  <2>5. CASE fresh' = {}
    BY <2>1, <2>3, <2>5 DEF LspInv, EditorShowsTheCheck
  <2> QED
    BY <1>1, <2>4, <2>5
<1>2. ASSUME NEW p \in DOMAIN Editable, Open(p) PROVE LspInv'
  <2>1. PICK t : Send(Message("textDocument/didOpen", p, t))
    BY <1>2 DEF Open
  <2> QED
    BY <1>1, <1>2, <2>1 DEF Open, Message, Notifications
<1>3. ASSUME NEW p \in DOMAIN Editable, NEW t, Type(p, t) PROVE LspInv'
  BY <1>1, <1>3 DEF Type, Message, Notifications
<1>4. ASSUME NEW p \in DOMAIN Editable, Save(p) PROVE LspInv'
  BY <1>1, <1>4 DEF Save, Message, Notifications
<1>5. ASSUME NEW p \in DOMAIN Editable, Close(p) PROVE LspInv'
  BY <1>1, <1>5 DEF Close, Message, Notifications
<1>6. ASSUME NEW r \in Requests, NEW p \in DOMAIN Editable, Ask(r, p) PROVE LspInv'
  BY <1>1, <1>6 DEF Ask, Message, Notifications
<1>7. ASSUME Exit PROVE LspInv'
  BY <1>1, <1>7 DEF Exit, Message, Notifications
<1> QED
  BY <1>2, <1>3, <1>4, <1>5, <1>6, <1>7 DEF EditorNext

\* What the server does with the message at the head of its inbox.
LEMMA ServeKeeps ==
  ASSUME LspInv, Serve
  PROVE  LspInv'
<1> DEFINE m == Head(inbox)
<1>1. inbox # << >> /\ inbox' = Tail(inbox) /\ disk' = disk /\ handle_message(m)
  BY DEF Serve, Take
<1>2. /\ IsSeq(Tail(inbox)) /\ Len(Tail(inbox)) = Len(inbox) - 1 /\ Len(inbox) \in Nat \ {0}
      /\ \A i \in 1 .. Len(Tail(inbox)) : Tail(inbox)[i] = inbox[i + 1] /\ i + 1 \in 1 .. Len(inbox)
      /\ Head(inbox) = inbox[1] /\ 1 \in 1 .. Len(inbox)
  BY <1>1, Taken DEF LspInv, InboxOK
<1>3. \A i \in 1 .. Len(inbox) : inbox[i].method \in Notifications => inbox[i].path \in DOMAIN Editable
  BY DEF LspInv, InboxOK
<1>4. m.method \in Notifications => m.path \in DOMAIN Editable
  BY <1>2, <1>3
<1>5. InboxOK'
  BY <1>1, <1>2, <1>3 DEF InboxOK
<1> HIDE DEF m
<1>6. ASSUME UNCHANGED << shown, docs, published, cache, fresh, own >>
      PROVE  ServerOK' /\ NoGhostDiagnostics' /\ EditorShowsTheCheck'
  <2>1. \A d : CheckOnDisk(d)' = CheckOnDisk(d) /\ Saved(d)' = Saved(d) /\ NoClash(d)' = NoClash(d)
    BY <1>1, <1>6 DEF CheckOnDisk, lib3b_check_package_with_overlays, Saved, NoClash
  <2>2. EditorShowsTheCheck' = EditorShowsTheCheck
    BY <1>6, <2>1 DEF EditorShowsTheCheck
  <2> QED
    BY <1>6, <2>2 DEF LspInv, ServerOK, NoGhostDiagnostics
<1>7. CASE handle_did_open(m) /\ m.path \in DOMAIN Editable
  <2>1. docs' = With(docs, m.path, m.text) /\ handle_check_notification(docs', m.path)
    BY <1>7 DEF handle_did_open
  <2>2. DOMAIN docs' \subseteq DOMAIN Editable
    BY <1>7, <2>1 DEF With, LspInv, ServerOK
  <2> QED
    BY <1>1, <1>5, <1>7, <2>1, <2>2, CheckKeeps DEF LspInv
<1>8. CASE handle_did_save(m) /\ m.path \in DOMAIN Editable
  <2>1. docs' = docs /\ handle_check_notification(docs, m.path) /\ DOMAIN docs \subseteq DOMAIN Editable
    BY <1>8 DEF handle_did_save, LspInv, ServerOK
  <2> QED
    BY <1>1, <1>5, <1>8, <2>1, CheckKeeps DEF LspInv
<1>9. CASE handle_close(m) /\ m.path \in DOMAIN Editable
  BY <1>5, <1>9, CloseKeeps DEF LspInv
<1>10. CASE handle_workspace_symbol(m)
  BY <1>1, <1>5, <1>10, ScanKeeps DEF LspInv
<1>11. CASE \/ handle_initialize(m) \/ handle_shutdown(m) \/ handle_exit(m) \/ LookingOnly
  <2>1. UNCHANGED << shown, docs, published, cache, fresh, own >>
    BY <1>11 DEF handle_initialize, handle_shutdown, handle_exit, LookingOnly
  <2> QED
    BY <1>5, <1>6, <2>1 DEF LspInv
<1>12. \/ handle_did_open(m) /\ m.method \in Notifications
       \/ handle_did_save(m) /\ m.method \in Notifications
       \/ handle_close(m) /\ m.method \in Notifications
       \/ handle_workspace_symbol(m) \/ handle_initialize(m) \/ handle_shutdown(m) \/ handle_exit(m)
       \/ LookingOnly
  BY <1>1 DEF handle_message, Notifications, handle_did_change, handle_hover, handle_definition, handle_completion,
       handle_document_symbol, handle_formatting, send_error_response
<1> QED
  BY <1>4, <1>7, <1>8, <1>9, <1>10, <1>11, <1>12

\* The invariant holds from the start and is kept by every step of the editor
\* and of the server.
THEOREM LspInvariant == Spec => []LspInv
<1>1. Init => LspInv
  <2> SUFFICES ASSUME Init PROVE LspInv
    OBVIOUS
  <2>1. PICK r : inbox = << Message("initialize", NoPath, r) >>
    BY DEF Init
  <2>2. Len(inbox) = 1 /\ inbox[1] = Message("initialize", NoPath, r) /\ inbox \in Seq({Message("initialize", NoPath, r)})
    BY <2>1
  <2>3. InboxOK
    <3>1. inbox[1].method = "initialize"
      BY <2>2 DEF Message
    <3> QED
      BY <2>2, <3>1 DEF InboxOK, IsSeq, Notifications
  <2>4. << >> \in Seq({})
    OBVIOUS
  <2>5. ServerOK /\ NoGhostDiagnostics /\ EditorShowsTheCheck
    BY <2>4 DEF Init, ServerOK, IsSeq, NoGhostDiagnostics, EditorShowsTheCheck
  <2> QED
    BY <2>3, <2>5 DEF LspInv
<1>2. LspInv /\ [Next]_vars => LspInv'
  <2> SUFFICES ASSUME LspInv, [Next]_vars PROVE LspInv'
    OBVIOUS
  <2>1. CASE EditorNext
    BY <2>1, EditorKeeps
  <2>2. CASE Serve
    BY <2>2, ServeKeeps
  <2>3. CASE UNCHANGED vars
    <3>1. UNCHANGED << disk, inbox, shown, docs, published, cache, fresh, own >>
      BY <2>3 DEF vars, editor, server
    <3>2. \A d : CheckOnDisk(d)' = CheckOnDisk(d) /\ Saved(d)' = Saved(d) /\ NoClash(d)' = NoClash(d)
      BY <3>1 DEF CheckOnDisk, lib3b_check_package_with_overlays, Saved, NoClash
    <3>3. EditorShowsTheCheck' = EditorShowsTheCheck
      BY <3>1, <3>2 DEF EditorShowsTheCheck
    <3> QED
      BY <3>1, <3>3 DEF LspInv, InboxOK, ServerOK, NoGhostDiagnostics
  <2> QED
    BY <2>1, <2>2, <2>3 DEF Next
<1> QED
  BY <1>1, <1>2, PTL DEF Spec

\* Whatever is on the editor's screen can still be withdrawn: the server never
\* forgets a file it has reported on (check_and_publish, handle_close).
THEOREM GhostsNeverShown == Spec => []NoGhostDiagnostics
<1>1. LspInv => NoGhostDiagnostics
  BY DEF LspInv
<1> QED
  BY <1>1, LspInvariant, PTL

\* What is on disk is a start and what was saved over it; a buffer holds one of
\* the texts there are.
DisksOK ==
  /\ disk \in DisksEver
  /\ DOMAIN buffers \subseteq DOMAIN Editable /\ \A p \in DOMAIN buffers : buffers[p] \in TextsEver

\* A file that is written leaves the files one of what they may be.
LEMMA SavedFile ==
  ASSUME NEW f \in DisksEver, NEW q \in DOMAIN Editable, NEW t \in TextsEver
  PROVE  [f EXCEPT ![q] = t] \in DisksEver
<1>1. PICK s \in Disks, w \in Saves : f = [p \in Paths |-> IF p \in DOMAIN w THEN w[p] ELSE s[p]]
  BY DEF DisksEver
<1>2. PICK S \in SUBSET DOMAIN Editable : w \in [S -> TextsEver]
  BY DEF Saves
<1> DEFINE w2 == [p \in S \cup {q} |-> IF p = q THEN t ELSE w[p]]
<1>3. w2 \in [S \cup {q} -> TextsEver] /\ S \cup {q} \in SUBSET DOMAIN Editable
  BY <1>2
<1>4. w2 \in Saves
  BY <1>3 DEF Saves
<1>5. [f EXCEPT ![q] = t] = [p \in Paths |-> IF p \in DOMAIN w2 THEN w2[p] ELSE s[p]]
  BY <1>1, <1>2
<1> HIDE DEF w2
<1>6. [p \in Paths |-> IF p \in DOMAIN w2 THEN w2[p] ELSE s[p]] \in DisksEver
  BY <1>1, <1>4 DEF DisksEver
<1> QED
  BY <1>5, <1>6

\* Every file holds one of the texts there are.
LEMMA TextOnDisk ==
  ASSUME NEW f \in DisksEver, NEW q \in Paths
  PROVE  f[q] \in TextsEver
<1>1. PICK s \in Disks, w \in Saves : f = [p \in Paths |-> IF p \in DOMAIN w THEN w[p] ELSE s[p]]
  BY DEF DisksEver
<1>2. PICK S \in SUBSET DOMAIN Editable : w \in [S -> TextsEver]
  BY DEF Saves
<1>3. s[q] \in TextsEver
  BY <1>1 DEF TextsEver
<1> QED
  BY <1>1, <1>2, <1>3

\* The files the server and the build see are among those the assumption is of.
LEMMA DisksInvariant == Spec => []DisksOK
<1>1. Init => DisksOK
  <2> SUFFICES ASSUME Init PROVE DisksOK
    OBVIOUS
  <2> DEFINE w == [p \in {} |-> NoFile]
  <2>1. disk \in Disks /\ disk = [p \in Paths |-> disk[p]] /\ DOMAIN buffers = {}
    BY ModesAssumption DEF Init
  <2>2. {} \in SUBSET DOMAIN Editable /\ w \in [{} -> TextsEver]
    OBVIOUS
  <2>3. w \in Saves
    BY <2>2, Zenon DEF Saves
  <2>4. [p \in Paths |-> IF p \in DOMAIN w THEN w[p] ELSE disk[p]] \in DisksEver
    BY <2>1, <2>3 DEF DisksEver
  <2>5. [p \in Paths |-> IF p \in DOMAIN w THEN w[p] ELSE disk[p]] = [p \in Paths |-> disk[p]]
    OBVIOUS
  <2> QED
    BY <2>1, <2>4, <2>5 DEF DisksOK
<1>2. DisksOK /\ [Next]_vars => DisksOK'
  <2> SUFFICES ASSUME DisksOK, [Next]_vars PROVE DisksOK'
    OBVIOUS
  <2>1. ASSUME NEW p \in DOMAIN Editable, Open(p) PROVE DisksOK'
    <3>1. PICK t \in IF disk[p] = NoFile THEN Editable[p] ELSE {disk[p]} : buffers' = With(buffers, p, t)
      BY <2>1 DEF Open
    <3>2. t \in TextsEver
      BY <3>1, TextOnDisk, EditorAssumption DEF DisksOK, TextsEver
    <3> QED
      BY <2>1, <3>1, <3>2 DEF Open, DisksOK, With
  <2>2. ASSUME NEW p \in DOMAIN Editable, NEW t \in Editable[p], Type(p, t) PROVE DisksOK'
    <3>1. t \in TextsEver
      BY DEF TextsEver
    <3> QED
      BY <2>2, <3>1 DEF Type, DisksOK
  <2>3. ASSUME NEW p \in DOMAIN Editable, Save(p) PROVE DisksOK'
    BY <2>3, SavedFile DEF Save, DisksOK
  <2>4. ASSUME NEW p \in DOMAIN Editable, Close(p) PROVE DisksOK'
    BY <2>4 DEF Close, DisksOK, Without
  <2>5. CASE UNCHANGED << disk, buffers >>
    BY <2>5 DEF DisksOK
  <2>6. CASE EditorNext
    BY <2>1, <2>2, <2>3, <2>4, <2>5, <2>6 DEF EditorNext, Ask, Exit
  <2>7. CASE Serve \/ UNCHANGED vars
    BY <2>5, <2>7 DEF Serve, vars, editor
  <2> QED
    BY <2>6, <2>7 DEF Next
<1> QED
  BY <1>1, <1>2, PTL DEF Spec

\* After a check the editor shows what a build of the same files reports but
\* for what code generation finds, for every package compiler that checks
\* before it generates code (check_and_publish, the overlays and the two modes
\* of compiler.c, symbol_cache_update).
THEOREM EditorAgreesWithBuild == Spec => []EditorAndBuildAgree
<1>1. LspInv /\ DisksOK => EditorAndBuildAgree
  <2> SUFFICES ASSUME LspInv, DisksOK, NEW d \in fresh, Saved(d), NoClash(d)
               PROVE  LET r == BuildOnDisk(d)
                      IN  /\ d \in own => \A b \in Range(Bases) :
                               /\ CheckFaults(group_by_file(r, << d, b >>)) \subseteq shown[<< d, b >>]
                               /\ CheckFaults(r.diags) = r.diags => shown[<< d, b >>] = group_by_file(r, << d, b >>)
                          /\ r.ok => d \in DOMAIN cache /\ cache[d].symbols = r.symbols
    BY DEF EditorAndBuildAgree
  <2> DEFINE r == BuildOnDisk(d)
             c == CheckOnDisk(d)
  <2>1. d \in Dirs
    BY DEF LspInv, ServerOK
  <2>2. disk \in DisksEver /\ disk = [p \in Paths |-> disk[p]]
    BY DEF DisksOK, DisksEver
  <2>3. SourcesSeen(disk, << >>) = disk
    BY <2>2 DEF SourcesSeen, overlay_lookup
  <2>4. r = BuildResult(disk, d) /\ c = CheckOnly(disk, d)
    BY <2>3 DEF BuildOnDisk, CheckOnDisk, lib3b_check_package_with_overlays, CheckOnly
  <2>5. ChecksBeforeCodegen(r, c)
    BY <2>1, <2>2, <2>4, ModesAssumption
  <2>6. /\ d \in own => \A b \in Range(Bases) : shown[<< d, b >>] = group_by_file(c, << d, b >>)
        /\ c.ok => d \in DOMAIN cache /\ cache[d].symbols = c.symbols
    BY DEF LspInv, EditorShowsTheCheck
  <2> HIDE DEF r, c
  <2>7. \A q : CheckFaults(group_by_file(r, q)) \subseteq group_by_file(c, q)
    BY <2>5 DEF ChecksBeforeCodegen, CheckFaults, group_by_file
  <2>8. CheckFaults(r.diags) = r.diags => \A q : group_by_file(r, q) = group_by_file(c, q)
    BY <2>5 DEF ChecksBeforeCodegen, group_by_file
  <2>9. r.ok => d \in DOMAIN cache /\ cache[d].symbols = r.symbols
    BY <2>5, <2>6 DEF ChecksBeforeCodegen
  <2>10. ASSUME d \in own, NEW b \in Range(Bases)
         PROVE  /\ CheckFaults(group_by_file(r, << d, b >>)) \subseteq shown[<< d, b >>]
                /\ CheckFaults(r.diags) = r.diags => shown[<< d, b >>] = group_by_file(r, << d, b >>)
    BY <2>6, <2>7, <2>8, <2>10
  <2> QED
    BY <2>9, <2>10 DEF r
<1> QED
  BY <1>1, LspInvariant, DisksInvariant, PTL

(***************************************************************************)
(* The build driver.                                                       *)
(***************************************************************************)
\* Two lists, one after the other.
LEMMA Concatenated ==
  ASSUME NEW s, NEW t, IsSeq(s), IsSeq(t)
  PROVE  IsSeq(s \o t) /\ Range(s \o t) = Range(s) \cup Range(t)
<1>1. PICK S, T : s \in Seq(S) /\ t \in Seq(T)
  BY DEF IsSeq
<1>2. s \in Seq(S \cup T) /\ t \in Seq(S \cup T)
  BY <1>1
<1>3. /\ s \o t \in Seq(S \cup T) /\ Len(s \o t) = Len(s) + Len(t) /\ Len(s) \in Nat /\ Len(t) \in Nat
      /\ DOMAIN s = 1 .. Len(s) /\ DOMAIN t = 1 .. Len(t) /\ DOMAIN (s \o t) = 1 .. Len(s) + Len(t)
      /\ \A i \in 1 .. Len(s) + Len(t) : (s \o t)[i] = IF i <= Len(s) THEN s[i] ELSE t[i - Len(s)]
  BY <1>2
<1>4. ASSUME NEW i \in DOMAIN s PROVE i \in DOMAIN (s \o t) /\ (s \o t)[i] = s[i]
  BY <1>3
<1>5. ASSUME NEW i \in DOMAIN t PROVE Len(s) + i \in DOMAIN (s \o t) /\ (s \o t)[Len(s) + i] = t[i]
  BY <1>3
<1>6. ASSUME NEW i \in DOMAIN (s \o t)
      PROVE  (i \in DOMAIN s /\ (s \o t)[i] = s[i]) \/ (i - Len(s) \in DOMAIN t /\ (s \o t)[i] = t[i - Len(s)])
  BY <1>3
<1>7. Range(s \o t) \subseteq Range(s) \cup Range(t)
  BY <1>6 DEF Range
<1>8. Range(s) \cup Range(t) \subseteq Range(s \o t)
  BY <1>4, <1>5 DEF Range
<1> QED
  BY <1>3, <1>7, <1>8 DEF IsSeq

\* Every manifest is read to a configuration whose C sources are C sources.
ConfigOK(cfg) ==
  /\ cfg = [binary |-> cfg.binary, kind |-> cfg.kind, c_sources |-> cfg.c_sources,
            pkg_config |-> cfg.pkg_config, libs |-> cfg.libs, static_libs |-> cfg.static_libs, include_first |-> cfg.include_first, ok |-> cfg.ok]
  /\ cfg.c_sources \in Seq(CSources)
FormOK(f) == f.op = "c-sources" => f.value \in CSources

LEMMA ReadFormKeeps ==
  ASSUME NEW cfg, NEW f, ConfigOK(cfg), FormOK(f)
  PROVE  ConfigOK(ReadForm(cfg, f))
<1> DEFINE c == [binary |-> cfg.binary, kind |-> cfg.kind, c_sources |-> cfg.c_sources,
                 pkg_config |-> cfg.pkg_config, libs |-> cfg.libs, static_libs |-> cfg.static_libs, include_first |-> cfg.include_first, ok |-> cfg.ok]
<1>1. cfg = c /\ cfg.c_sources \in Seq(CSources)
  BY DEF ConfigOK
<1> DEFINE ConfigOf(bin, kind, cs, pc, ls, sls, inc, ok) ==
             [binary |-> bin, kind |-> kind, c_sources |-> cs, pkg_config |-> pc, libs |-> ls, static_libs |-> sls, include_first |-> inc, ok |-> ok]
<1>a. \A bin, kind, cs, pc, ls, sls, inc, ok : cs \in Seq(CSources) => ConfigOK(ConfigOf(bin, kind, cs, pc, ls, sls, inc, ok))
  BY DEF ConfigOK
<1>2. /\ ConfigOK(handle_binary(c, f)) /\ ConfigOK(handle_kind(c, f)) /\ ConfigOK(cfg_error(c))
      /\ ConfigOK(handle_include_first(c, f)) /\ ConfigOK(handle_string_list(c, f, "pkg_config"))
      /\ ConfigOK(handle_string_list(c, f, "libs")) /\ ConfigOK(handle_string_list(c, f, "static_libs"))
  <2>1. handle_binary(c, f) = ConfigOf(f.value, cfg.kind, cfg.c_sources, cfg.pkg_config, cfg.libs, cfg.static_libs, cfg.include_first, cfg.ok)
    BY DEF handle_binary
  <2>2. handle_kind(c, f) = ConfigOf(cfg.binary, f.value, cfg.c_sources, cfg.pkg_config, cfg.libs, cfg.static_libs, cfg.include_first, cfg.ok)
    BY DEF handle_kind
  <2>3. cfg_error(c) = ConfigOf(cfg.binary, cfg.kind, cfg.c_sources, cfg.pkg_config, cfg.libs, cfg.static_libs, cfg.include_first, FALSE)
    <3>1. \A v : [c EXCEPT !.ok = v] = ConfigOf(cfg.binary, cfg.kind, cfg.c_sources, cfg.pkg_config, cfg.libs, cfg.static_libs, cfg.include_first, v)
      OBVIOUS
    <3>2. [c EXCEPT !.ok = FALSE] = ConfigOf(cfg.binary, cfg.kind, cfg.c_sources, cfg.pkg_config, cfg.libs, cfg.static_libs, cfg.include_first, FALSE)
      BY <3>1, Zenon
    <3> QED
      BY <3>2, Zenon DEF cfg_error
  <2>4. handle_include_first(c, f) = ConfigOf(cfg.binary, cfg.kind, cfg.c_sources, cfg.pkg_config, cfg.libs, cfg.static_libs, Append(cfg.include_first, f.value), cfg.ok)
    <3>1. \A v : [c EXCEPT !.include_first = v] = ConfigOf(cfg.binary, cfg.kind, cfg.c_sources, cfg.pkg_config, cfg.libs, cfg.static_libs, v, cfg.ok)
      OBVIOUS
    <3>2. c.include_first = cfg.include_first
      OBVIOUS
    <3>3. handle_include_first(c, f) = [c EXCEPT !.include_first = Append(c.include_first, f.value)]
      BY Zenon DEF handle_include_first
    <3> HIDE DEF c, ConfigOf
    <3> QED
      BY <3>1, <3>2, <3>3
  <2>5. handle_string_list(c, f, "pkg_config") = ConfigOf(cfg.binary, cfg.kind, cfg.c_sources, Append(cfg.pkg_config, f.value), cfg.libs, cfg.static_libs, cfg.include_first, cfg.ok)
    <3>1. c["pkg_config"] = cfg.pkg_config
      OBVIOUS
    <3>2. handle_string_list(c, f, "pkg_config") = [c EXCEPT !["pkg_config"] = Append(c["pkg_config"], f.value)]
      BY Zenon DEF handle_string_list
    <3>3. \A v : [c EXCEPT !["pkg_config"] = v] = ConfigOf(cfg.binary, cfg.kind, cfg.c_sources, v, cfg.libs, cfg.static_libs, cfg.include_first, cfg.ok)
      OBVIOUS
    <3> HIDE DEF c, ConfigOf
    <3> QED
      BY <3>1, <3>2, <3>3
  <2>5a. handle_string_list(c, f, "libs") = ConfigOf(cfg.binary, cfg.kind, cfg.c_sources, cfg.pkg_config, Append(cfg.libs, f.value), cfg.static_libs, cfg.include_first, cfg.ok)
    <3>1. c["libs"] = cfg.libs
      OBVIOUS
    <3>2. handle_string_list(c, f, "libs") = [c EXCEPT !["libs"] = Append(c["libs"], f.value)]
      BY Zenon DEF handle_string_list
    <3>3. \A v : [c EXCEPT !["libs"] = v] = ConfigOf(cfg.binary, cfg.kind, cfg.c_sources, cfg.pkg_config, v, cfg.static_libs, cfg.include_first, cfg.ok)
      OBVIOUS
    <3> HIDE DEF c, ConfigOf
    <3> QED
      BY <3>1, <3>2, <3>3
  <2>5b. handle_string_list(c, f, "static_libs") = ConfigOf(cfg.binary, cfg.kind, cfg.c_sources, cfg.pkg_config, cfg.libs, Append(cfg.static_libs, f.value), cfg.include_first, cfg.ok)
    <3>1. c["static_libs"] = cfg.static_libs
      OBVIOUS
    <3>2. handle_string_list(c, f, "static_libs") = [c EXCEPT !["static_libs"] = Append(c["static_libs"], f.value)]
      BY Zenon DEF handle_string_list
    <3>3. \A v : [c EXCEPT !["static_libs"] = v] = ConfigOf(cfg.binary, cfg.kind, cfg.c_sources, cfg.pkg_config, cfg.libs, v, cfg.include_first, cfg.ok)
      OBVIOUS
    <3> HIDE DEF c, ConfigOf
    <3> QED
      BY <3>1, <3>2, <3>3
  <2> HIDE DEF ConfigOf
  <2>6. ConfigOK(handle_binary(c, f)) /\ ConfigOK(handle_kind(c, f))
    BY <1>1, <1>a, <2>1, <2>2
  <2>7. ConfigOK(cfg_error(c))
    <3>1. ConfigOK(ConfigOf(cfg.binary, cfg.kind, cfg.c_sources, cfg.pkg_config, cfg.libs, cfg.static_libs, cfg.include_first, FALSE))
      BY <1>1, <1>a, Zenon
    <3> QED
      BY <2>3, <3>1, Zenon
  <2>8. ConfigOK(handle_include_first(c, f))
    BY <1>1, <1>a, <2>4
  <2>9. ConfigOK(handle_string_list(c, f, "pkg_config"))
    BY <1>1, <1>a, <2>5
  <2>10. ConfigOK(handle_string_list(c, f, "libs"))
    BY <1>1, <1>a, <2>5a
  <2>11. ConfigOK(handle_string_list(c, f, "static_libs"))
    BY <1>1, <1>a, <2>5b
  <2> QED
    BY <2>6, <2>7, <2>8, <2>9, <2>10, <2>11
<1>3. f.op = "c-sources" => ConfigOK(handle_string_list(c, f, "c_sources"))
  <2>1. SUFFICES ASSUME f.op = "c-sources" PROVE ConfigOK(handle_string_list(c, f, "c_sources"))
    OBVIOUS
  <2>2. Append(cfg.c_sources, f.value) \in Seq(CSources)
    BY <1>1, <2>1 DEF FormOK
  <2>3. handle_string_list(c, f, "c_sources") = ConfigOf(cfg.binary, cfg.kind, Append(cfg.c_sources, f.value), cfg.pkg_config, cfg.libs, cfg.static_libs, cfg.include_first, cfg.ok)
    <3>1. c["c_sources"] = cfg.c_sources
      OBVIOUS
    <3>2. handle_string_list(c, f, "c_sources") = [c EXCEPT !["c_sources"] = Append(c["c_sources"], f.value)]
      BY Zenon DEF handle_string_list
    <3>3. \A v : [c EXCEPT !["c_sources"] = v] = ConfigOf(cfg.binary, cfg.kind, v, cfg.pkg_config, cfg.libs, cfg.static_libs, cfg.include_first, cfg.ok)
      OBVIOUS
    <3> HIDE DEF c, ConfigOf
    <3> QED
      BY <3>1, <3>2, <3>3
  <2> HIDE DEF ConfigOf
  <2> QED
    BY <1>a, <2>2, <2>3
<1> HIDE DEF c
<1>4. ReadForm(c, f) \in {cfg_error(c), handle_binary(c, f), handle_kind(c, f), handle_string_list(c, f, "pkg_config"),
                          handle_string_list(c, f, "libs"), handle_string_list(c, f, "static_libs"), handle_include_first(c, f)}
      \/ (f.op = "c-sources" /\ ReadForm(c, f) = handle_string_list(c, f, "c_sources"))
  BY DEF ReadForm
<1> QED
  BY <1>1, <1>2, <1>3, <1>4

\* Form by form, the configuration stays one.
LEMMA ManifestRead ==
  ASSUME NEW m, IsList(m), \A i \in DOMAIN m : FormOK(m[i])
  PROVE  ConfigOK(build_config_read(m))
<1> DEFINE Is(g, k) == g = [n \in 0 .. k |-> IF n = 0 THEN NoConfig ELSE ReadForm(g[n - 1], m[n])]
<1>1. Len(m) \in Nat /\ DOMAIN m = 1 .. Len(m)
  BY DEF IsList
<1>2. \A k \in 0 .. Len(m) : \E g : Is(g, k)
  <2> SUFFICES ASSUME NEW k \in 0 .. Len(m), ~ \E g : Is(g, k) PROVE FALSE
    OBVIOUS
  <2> DEFINE Bad == { i \in 0 .. Len(m) : ~ \E g : Is(g, i) }
  <2>1. Bad \subseteq Nat /\ k \in Bad
    BY <1>1
  <2>2. PICK b \in Bad : \A j \in Bad : b <= j
    BY <2>1, LeastOf
  <2>3. b # 0
    <3> DEFINE g == [n \in 0 .. 0 |-> NoConfig]
    <3>1. Is(g, 0)
      OBVIOUS
    <3> QED
      BY <2>2, <3>1
  <2>4. b \in 1 .. Len(m) /\ b - 1 \in 0 .. Len(m) /\ b - 1 \notin Bad
    <3>1. Bad \subseteq 0 .. Len(m)
      OBVIOUS
    <3> HIDE DEF Bad
    <3> QED
      BY <1>1, <2>2, <2>3, <3>1
  <2>5. PICK g : Is(g, b - 1)
    BY <2>4
  <2> DEFINE h == [n \in 0 .. b |-> IF n = b THEN ReadForm(g[b - 1], m[b]) ELSE g[n]]
  <2>6. \A n \in 0 .. b - 1 : g[n] = IF n = 0 THEN NoConfig ELSE ReadForm(g[n - 1], m[n])
    BY <2>5, <2>4
  <2>7. \A n \in 0 .. b : h[n] = IF n = 0 THEN NoConfig ELSE ReadForm(h[n - 1], m[n])
    <3> TAKE n \in 0 .. b
    <3>1. CASE n = 0
      BY <2>3, <2>4, <2>6, <3>1
    <3>2. CASE n = b
      BY <2>3, <2>4, <3>2
    <3>3. CASE n # 0 /\ n # b
      <4>1. n \in 0 .. b - 1 /\ n - 1 \in 0 .. b /\ n - 1 # b
        BY <2>4, <3>3
      <4>2. h[n] = g[n] /\ h[n - 1] = g[n - 1]
        BY <3>3, <4>1
      <4> HIDE DEF h
      <4> QED
        BY <2>6, <3>3, <4>1, <4>2
    <3> QED
      BY <3>1, <3>2, <3>3
  <2>8. Is(h, b)
    <3>1. h = [n \in 0 .. b |-> h[n]]
      OBVIOUS
    <3> HIDE DEF h
    <3> QED
      BY <2>7, <3>1
  <2> QED
    BY <2>2, <2>8
<1> DEFINE After == CHOOSE g : Is(g, Len(m))
<1>3. build_config_read(m) = After[Len(m)]
  BY DEF build_config_read
<1>4. Is(After, Len(m))
  <2>1. \E g : Is(g, Len(m))
    BY <1>1, <1>2
  <2> QED
    BY <2>1, Zenon
<1> HIDE DEF After
<1>5. \A n \in 0 .. Len(m) : After[n] = IF n = 0 THEN NoConfig ELSE ReadForm(After[n - 1], m[n])
  BY <1>4
<1>6. ConfigOK(NoConfig)
  BY DEF ConfigOK, NoConfig
<1>7. \A n \in 0 .. Len(m) : ConfigOK(After[n])
  <2> SUFFICES ASSUME NEW k \in 0 .. Len(m), ~ConfigOK(After[k]) PROVE FALSE
    OBVIOUS
  <2> DEFINE Bad == { i \in 0 .. Len(m) : ~ConfigOK(After[i]) }
  <2>1. Bad \subseteq Nat /\ k \in Bad
    BY <1>1
  <2>2. PICK b \in Bad : \A j \in Bad : b <= j
    BY <2>1, LeastOf
  <2>3. b # 0
    BY <1>5, <1>6, <2>2
  <2>4. b \in 1 .. Len(m) /\ b - 1 \in 0 .. Len(m) /\ b - 1 \notin Bad
    <3>1. Bad \subseteq 0 .. Len(m)
      OBVIOUS
    <3> HIDE DEF Bad
    <3> QED
      BY <1>1, <2>2, <2>3, <3>1
  <2>5. ConfigOK(After[b - 1]) /\ FormOK(m[b]) /\ After[b] = ReadForm(After[b - 1], m[b])
    BY <1>1, <1>5, <2>3, <2>4
  <2> QED
    BY <2>2, <2>5, ReadFormKeeps
<1> QED
  BY <1>1, <1>3, <1>7

(***************************************************************************)
(* The inductive invariant, by the stage of the command: what it generated *)
(* is in output/; every package's object is either still to be compiled,   *)
(* from there, or is what it generated; and so is what was linked.         *)
(***************************************************************************)
CmdOf(stage, dir, run_after, pkgs, lines, link, code) ==
  [stage |-> stage, dir |-> dir, run_after |-> run_after, pkgs |-> pkgs, lines |-> lines, link |-> link, code |-> code]
CmdShape == cmd = CmdOf(cmd.stage, cmd.dir, cmd.run_after, cmd.pkgs, cmd.lines, cmd.link, cmd.code)
SourcesOK ==
  /\ files \in FilesEver
  /\ DOMAIN manifest = Dirs /\ \A d \in Dirs : manifest[d] \in Manifests \cup {<< >>}
Generated ==
  /\ cmd.dir \in Dirs /\ IsSeq(cmd.pkgs) /\ DOMAIN cmd.code \subseteq Range(cmd.pkgs)
  /\ \A n \in DOMAIN cmd.code : << cmd.dir, n >> \in DOMAIN output /\ output[<< cmd.dir, n >>] = cmd.code[n]
Distinct == DistinctObjects(cmd.code)
ScriptLines ==
  /\ IsSeq(cmd.lines)
  /\ Distinct => \A n \in DOMAIN cmd.code :
       /\ \A x \in Range(cmd.lines) : x.obj = n => x.from = << "output", n >>
       /\ \/ \E x \in Range(cmd.lines) : x.obj = n
          \/ << cmd.dir, n >> \in DOMAIN objects /\ objects[<< cmd.dir, n >>] = cmd.code[n]
LinkedCode ==
  /\ << cmd.dir, cmd.link >> \in DOMAIN binaries
  /\ Distinct => \A n \in DOMAIN cmd.code : n \in DOMAIN binaries[<< cmd.dir, cmd.link >>] /\ binaries[<< cmd.dir, cmd.link >>][n] = cmd.code[n]
BuildInv ==
  /\ SourcesOK /\ CmdShape
  /\ cmd.stage \in {"idle", "manifest", "script", "run"}
  /\ cmd.stage \in {"manifest", "script"} => Generated
  /\ cmd.stage = "script" => ScriptLines
  /\ cmd.stage = "run" => LinkedCode
  /\ RunsWhatItBuilt

\* No command.
LEMMA IdleShape == Idle = CmdOf("idle", NoDir, FALSE, << >>, << >>, "", << >>) /\ Idle.stage = "idle"
  BY DEF Idle, CmdOf

\* A change to a source leaves it one of those there may be.
LEMMA EditedFile ==
  ASSUME NEW f \in FilesEver, NEW e \in Edits
  PROVE  [f EXCEPT ![e[1]] = e[2]] \in FilesEver
<1> DEFINE Values == { x[2] : x \in Edits }
           Places == { x[1] : x \in Edits }
<1>1. PICK s \in Starts, c \in Changes : f = [p \in Paths |-> IF p \in DOMAIN c THEN c[p] ELSE s[p]]
  BY DEF FilesEver
<1>2. PICK S \in SUBSET Places : c \in [S -> Values]
  BY DEF Changes
<1> DEFINE c2 == [p \in S \cup {e[1]} |-> IF p = e[1] THEN e[2] ELSE c[p]]
<1>3. c2 \in [S \cup {e[1]} -> Values] /\ S \cup {e[1]} \in SUBSET Places
  BY <1>2
<1>4. c2 \in Changes
  BY <1>3 DEF Changes
<1>5. [f EXCEPT ![e[1]] = e[2]] = [p \in Paths |-> IF p \in DOMAIN c2 THEN c2[p] ELSE s[p]]
  BY <1>1, <1>2
<1> HIDE DEF c2
<1>6. [p \in Paths |-> IF p \in DOMAIN c2 THEN c2[p] ELSE s[p]] \in FilesEver
  BY <1>1, <1>4 DEF FilesEver
<1> QED
  BY <1>5, <1>6

\* What the driver gives the compiler are the files.
LEMMA FilesAreSeen ==
  ASSUME NEW f \in FilesEver
  PROVE  SourcesSeen(f, << >>) = f
<1>1. f = [p \in Paths |-> f[p]]
  BY DEF FilesEver
<1> QED
  BY <1>1 DEF SourcesSeen, overlay_lookup

\* A project root is a directory.
LEMMA RootIsDir ==
  ASSUME NEW d \in Dirs, find_project_root(d) # NoDir
  PROVE  find_project_root(d) \in Dirs
<1> DEFINE roots == { i \in DOMAIN Upwards[d] : dir_has_3b_files(Upwards[d][i]) }
<1>1. Upwards[d] \in Seq(Dirs)
  BY ProjectsAssumption
<1>2. roots # {}
  BY DEF find_project_root
<1>3. roots \subseteq Nat /\ \A i \in roots : Upwards[d][i] \in Dirs
  BY <1>1
<1>4. \E i \in roots : \A j \in roots : i <= j
  <2> HIDE DEF roots
  <2> QED
    BY <1>2, <1>3, LeastOf
<1>5. find_project_root(d) = Upwards[d][CHOOSE i \in roots : \A j \in roots : i <= j]
  BY <1>2 DEF find_project_root
<1> HIDE DEF roots
<1> QED
  BY <1>3, <1>4, <1>5

\* What a command that goes on to the toolchain has generated.
LEMMA CodeIsWritten ==
  ASSUME NEW d \in Dirs, NEW st, WellCompiled(st), st.at # 0
  PROVE  /\ IsSeq(PackageNames(st))
         /\ \A n \in Range(PackageNames(st)) : << d, n >> \in DOMAIN WriteCode(d, st)
<1>1. /\ Len(st.registry) \in Nat /\ DOMAIN st.registry = 1 .. Len(st.registry)
      /\ \A i \in DOMAIN st.registry : i \in CodeOf(st)
  BY DEF WellCompiled, IsList, CodeOf
<1>2. PackageNames(st) \in Seq({ st.registry[i].name : i \in DOMAIN st.registry })
  BY <1>1 DEF PackageNames
<1>3. ASSUME NEW n \in Range(PackageNames(st)) PROVE << d, n >> \in DOMAIN WriteCode(d, st)
  <2>1. PICK i \in DOMAIN st.registry : n = st.registry[i].name
    BY <1>3 DEF Range, PackageNames
  <2> QED
    BY <1>1, <2>1 DEF WriteCode
<1> QED
  BY <1>2, <1>3 DEF IsSeq

LEMMA EditKeeps ==
  ASSUME BuildInv, Edit
  PROVE  BuildInv'
<1>1. UNCHANGED << output, objects, binaries, cmd, executed >>
  BY DEF Edit, made
<1>2. SourcesOK'
  <2>1. CASE \E e \in Edits : files' = [files EXCEPT ![e[1]] = e[2]] /\ UNCHANGED << manifest, c_files >>
    BY <2>1, EditedFile DEF BuildInv, SourcesOK
  <2>2. CASE \E d \in Dirs, m \in Manifests : manifest' = [manifest EXCEPT ![d] = m] /\ UNCHANGED << files, c_files >>
    BY <2>2 DEF BuildInv, SourcesOK
  <2>3. CASE UNCHANGED << files, manifest >>
    BY <2>3 DEF BuildInv, SourcesOK
  <2> QED
    BY <2>1, <2>2, <2>3 DEF Edit
<1> QED
  BY <1>1, <1>2 DEF BuildInv, CmdShape, Generated, ScriptLines, Distinct, LinkedCode, RunsWhatItBuilt

\* A command that ends leaves nothing to be kept but what was executed.
LEMMA EndedKeeps ==
  ASSUME SourcesOK', Ended, RunsWhatItBuilt'
  PROVE  BuildInv'
<1>1. cmd' = Idle /\ CmdShape' /\ cmd'.stage = "idle"
  BY IdleShape DEF Ended, CmdShape, CmdOf, Idle
<1> QED
  BY <1>1 DEF BuildInv

LEMMA CommandKeeps ==
  ASSUME BuildInv, NEW cwd \in Dirs, NEW r \in BOOLEAN, NEW nc \in BOOLEAN, Command(cwd, r, nc)
  PROVE  BuildInv'
<1> DEFINE d == find_project_root(cwd)
           st == Compiled(d)
<1>1. SourcesOK' /\ RunsWhatItBuilt'
  BY DEF Command, sources, BuildInv, SourcesOK, RunsWhatItBuilt
<1>2. CASE Ended
  BY <1>1, <1>2, EndedKeeps
<1>3. CASE ~Ended
  <2>1. d # NoDir /\ build_project_cmd(d, r, nc, st)
    BY <1>3 DEF Command
  <2>2. d \in Dirs /\ WellCompiled(st)
    <3>1. d \in Dirs
      BY <2>1, RootIsDir
    <3>2. files \in FilesEver /\ SourcesSeen(files, << >>) = files
      BY FilesAreSeen DEF BuildInv, SourcesOK
    <3> QED
      BY <3>1, <3>2, CompileAssumption DEF Compiled
  <2> DEFINE code == [n \in Range(PackageNames(st)) |-> WriteCode(d, st)[<< d, n >>]]
  <2>3. /\ st.at # 0 /\ output' = Over(WriteCode(d, st), output)
        /\ cmd' = [Idle EXCEPT !.stage = "manifest", !.dir = d, !.run_after = r, !.pkgs = PackageNames(st), !.code = code]
    BY <1>3, <2>1 DEF build_project_cmd
  <2>4. cmd' = CmdOf("manifest", d, r, PackageNames(st), << >>, "", code)
    BY <2>3, IdleShape DEF CmdOf
  <2>5. cmd'.stage = "manifest" /\ cmd'.dir = d /\ cmd'.pkgs = PackageNames(st) /\ cmd'.code = code /\ CmdShape'
    BY <2>4 DEF CmdOf, CmdShape
  <2>6. /\ IsSeq(PackageNames(st))
        /\ \A n \in Range(PackageNames(st)) : << d, n >> \in DOMAIN WriteCode(d, st)
    BY <2>2, <2>3, CodeIsWritten
  <2>7. \A n \in Range(PackageNames(st)) : << d, n >> \in DOMAIN output' /\ output'[<< d, n >>] = code[n]
    BY <2>3, <2>6 DEF Over
  <2>8. DOMAIN code = Range(PackageNames(st))
    OBVIOUS
  <2> HIDE DEF code, st, d
  <2>9. Generated'
    BY <2>2, <2>5, <2>6, <2>7, <2>8 DEF Generated
  <2> QED
    BY <1>1, <2>5, <2>9 DEF BuildInv
<1> QED
  BY <1>2, <1>3

LEMMA ToolchainKeeps ==
  ASSUME BuildInv, build_invoke_toolchain
  PROVE  BuildInv'
<1> DEFINE cfg == read_manifest_if_present(cmd.dir)
           cs == cfg.c_sources
           lines == PackageLines(cmd.dir, cmd.pkgs) \o RuntimeLine \o SourceLines(cs)
           pkgs == cmd.pkgs \o << "3b_runtime" >> \o cs
<1>1. UNCHANGED << output, objects, binaries, executed >> /\ cmd.stage = "manifest"
  BY DEF build_invoke_toolchain, made
<1>2. SourcesOK' /\ RunsWhatItBuilt'
  BY DEF build_invoke_toolchain, sources, BuildInv, SourcesOK, RunsWhatItBuilt
<1>3. Generated /\ CmdShape
  BY <1>1 DEF BuildInv
<1>4. CASE cmd' = Idle
  BY <1>2, <1>4, EndedKeeps DEF Ended
<1>5. CASE cmd' # Idle
  <2>1. PICK link : cmd' = [cmd EXCEPT !.stage = "script", !.lines = lines, !.link = link, !.pkgs = pkgs]
    BY <1>5 DEF build_invoke_toolchain
  <2>2. cmd' = CmdOf("script", cmd.dir, cmd.run_after, pkgs, lines, link, cmd.code)
    BY <1>3, <2>1 DEF CmdShape, CmdOf
  <2> HIDE DEF lines, pkgs
  <2>3. /\ cmd'.stage = "script" /\ cmd'.dir = cmd.dir /\ cmd'.pkgs = pkgs /\ cmd'.lines = lines /\ cmd'.code = cmd.code
        /\ CmdShape'
    BY <2>2 DEF CmdOf, CmdShape
  <2>4. cs \in Seq(CSources)
    <3>1. manifest[cmd.dir] \in Manifests \cup {<< >>}
      BY <1>3 DEF Generated, BuildInv, SourcesOK
    <3>2. IsList(manifest[cmd.dir]) /\ \A i \in DOMAIN manifest[cmd.dir] : FormOK(manifest[cmd.dir][i])
      <4>1. CASE manifest[cmd.dir] \in Manifests
        BY <4>1, ProjectsAssumption DEF FormOK
      <4>2. CASE manifest[cmd.dir] = << >>
        BY <4>2 DEF IsList
      <4> QED
        BY <3>1, <4>1, <4>2
    <3> QED
      BY <3>2, ManifestRead DEF read_manifest_if_present, ConfigOK
  <2>5. /\ IsSeq(pkgs) /\ Range(cmd.pkgs) \subseteq Range(pkgs)
    <3>1. IsSeq(cmd.pkgs) /\ IsSeq(<< "3b_runtime" >>) /\ IsSeq(cs)
      <4>1. IsSeq(cs)
        BY <2>4 DEF IsSeq
      <4> QED
        BY <1>3, <4>1, Single DEF Generated
    <3> HIDE DEF cs
    <3> QED
      BY <3>1, Concatenated DEF pkgs
  <2>6. Generated'
    BY <1>1, <1>3, <2>3, <2>5 DEF Generated
  <2>7. /\ IsSeq(lines)
        /\ Range(lines) = Range(PackageLines(cmd.dir, cmd.pkgs)) \cup Range(RuntimeLine) \cup Range(SourceLines(cs))
    <3>1. IsSeq(PackageLines(cmd.dir, cmd.pkgs))
      <4>1. PICK S : cmd.pkgs \in Seq(S)
        BY <1>3 DEF Generated, IsSeq
      <4>2. PackageLines(cmd.dir, cmd.pkgs) \in Seq({ CompileLine(x, << "output", x >>) : x \in S })
        BY <4>1 DEF PackageLines
      <4> QED
        BY <4>2 DEF IsSeq
    <3>2. IsSeq(SourceLines(cs))
      <4>1. SourceLines(cs) \in Seq({ CompileLine(x, << "c", x >>) : x \in CSources })
        BY <2>4 DEF SourceLines
      <4> QED
        BY <4>1 DEF IsSeq
    <3>3. IsSeq(RuntimeLine)
      BY Single DEF RuntimeLine
    <3> HIDE DEF cs
    <3> QED
      BY <3>1, <3>2, <3>3, Concatenated DEF lines
  <2>8. ASSUME Distinct, NEW n \in DOMAIN cmd.code
        PROVE  /\ \A x \in Range(lines) : x.obj = n => x.from = << "output", n >>
               /\ \E x \in Range(lines) : x.obj = n
    <3>1. n \notin CSources /\ n # "3b_runtime" /\ n \in Range(cmd.pkgs)
      BY <1>3, <2>8 DEF Distinct, DistinctObjects, Generated
    <3>2. \A x \in Range(PackageLines(cmd.dir, cmd.pkgs)) : x.from = << "output", x.obj >>
      <4> TAKE x \in Range(PackageLines(cmd.dir, cmd.pkgs))
      <4>1. PICK i \in DOMAIN cmd.pkgs : x = CompileLine(cmd.pkgs[i], << "output", cmd.pkgs[i] >>)
        BY DEF Range, PackageLines
      <4> QED
        BY <4>1 DEF CompileLine
    <3>3. \A x \in Range(SourceLines(cs)) : x.obj \in CSources
      <4> TAKE x \in Range(SourceLines(cs))
      <4>1. PICK i \in DOMAIN cs : x = CompileLine(cs[i], << "c", cs[i] >>)
        BY DEF Range, SourceLines
      <4>2. cs[i] \in CSources
        BY <2>4, <4>1
      <4> QED
        BY <4>1, <4>2 DEF CompileLine
    <3>4. \A x \in Range(RuntimeLine) : x.obj = "3b_runtime"
      BY DEF Range, RuntimeLine, CompileLine
    <3>5. \E x \in Range(PackageLines(cmd.dir, cmd.pkgs)) : x.obj = n
      <4>1. PICK i \in DOMAIN cmd.pkgs : cmd.pkgs[i] = n
        BY <3>1 DEF Range
      <4>2. /\ i \in DOMAIN PackageLines(cmd.dir, cmd.pkgs)
            /\ PackageLines(cmd.dir, cmd.pkgs)[i].obj = n
        BY <4>1 DEF PackageLines, CompileLine
      <4> QED
        BY <4>2 DEF Range
    <3> QED
      BY <2>7, <3>1, <3>2, <3>3, <3>4, <3>5
  <2>9. ScriptLines'
    <3>1. Distinct' = Distinct
      BY <2>3 DEF Distinct
    <3> QED
      BY <2>3, <2>7, <2>8, <3>1 DEF ScriptLines
  <2> QED
    BY <1>2, <2>3, <2>6, <2>9 DEF BuildInv
<1> QED
  BY <1>4, <1>5

LEMMA CompileLineKeeps ==
  ASSUME BuildInv, NEW ok \in BOOLEAN, ShellCompile(ok)
  PROVE  BuildInv'
<1> DEFINE line == Head(cmd.lines)
<1>1. /\ cmd.stage = "script" /\ cmd.lines # << >> /\ UNCHANGED << output, binaries, executed >>
      /\ Generated /\ ScriptLines /\ CmdShape
  BY DEF ShellCompile, BuildInv
<1>2. SourcesOK' /\ RunsWhatItBuilt'
  BY DEF ShellCompile, sources, BuildInv, SourcesOK, RunsWhatItBuilt
<1>3. CASE ~ok
  BY <1>2, <1>3, EndedKeeps DEF ShellCompile, append_script_line
<1>4. CASE ok
  <2>1. /\ objects' = With(objects, << cmd.dir, line.obj >>, ContentOf(line.from))
        /\ cmd' = [cmd EXCEPT !.lines = Tail(cmd.lines)]
    BY <1>4 DEF ShellCompile, append_script_line
  <2>2. cmd' = CmdOf("script", cmd.dir, cmd.run_after, cmd.pkgs, Tail(cmd.lines), cmd.link, cmd.code)
    BY <1>1, <2>1 DEF CmdShape, CmdOf
  <2>3. /\ cmd'.stage = "script" /\ cmd'.dir = cmd.dir /\ cmd'.pkgs = cmd.pkgs /\ cmd'.lines = Tail(cmd.lines)
        /\ cmd'.code = cmd.code /\ CmdShape'
    BY <2>2 DEF CmdOf, CmdShape
  <2>4. Generated'
    BY <1>1, <2>3 DEF Generated
  <2>5. /\ IsSeq(Tail(cmd.lines)) /\ line \in Range(cmd.lines) /\ Range(Tail(cmd.lines)) \subseteq Range(cmd.lines)
        /\ Range(cmd.lines) \subseteq Range(Tail(cmd.lines)) \cup {line}
    <3>1. PICK S : cmd.lines \in Seq(S)
      BY <1>1 DEF ScriptLines, IsSeq
    <3>2. /\ Tail(cmd.lines) \in Seq(S) /\ Len(cmd.lines) \in Nat \ {0} /\ line = cmd.lines[1]
          /\ DOMAIN cmd.lines = 1 .. Len(cmd.lines) /\ DOMAIN Tail(cmd.lines) = 1 .. Len(cmd.lines) - 1
          /\ \A i \in 1 .. Len(cmd.lines) - 1 : Tail(cmd.lines)[i] = cmd.lines[i + 1]
      BY <1>1, <3>1
    <3>3. line \in Range(cmd.lines)
      <4>1. 1 \in DOMAIN cmd.lines
        BY <3>2
      <4> HIDE DEF line
      <4> QED
        BY <3>2, <4>1 DEF Range
    <3>4. ASSUME NEW i \in DOMAIN Tail(cmd.lines) PROVE Tail(cmd.lines)[i] \in Range(cmd.lines)
      <4>1. i + 1 \in DOMAIN cmd.lines /\ Tail(cmd.lines)[i] = cmd.lines[i + 1]
        BY <3>2
      <4> QED
        BY <4>1 DEF Range
    <3>5. ASSUME NEW i \in DOMAIN cmd.lines PROVE cmd.lines[i] \in Range(Tail(cmd.lines)) \cup {line}
      <4>1. i = 1 \/ (i - 1 \in DOMAIN Tail(cmd.lines) /\ Tail(cmd.lines)[i - 1] = cmd.lines[i])
        BY <3>2
      <4> HIDE DEF line
      <4> QED
        BY <3>2, <4>1 DEF Range
    <3> HIDE DEF line
    <3>6. Range(Tail(cmd.lines)) \subseteq Range(cmd.lines)
      BY <3>4 DEF Range
    <3>7. Range(cmd.lines) \subseteq Range(Tail(cmd.lines)) \cup {line}
      BY <3>5 DEF Range
    <3> QED
      BY <3>2, <3>3, <3>6, <3>7 DEF IsSeq
  <2> HIDE DEF line
  <2>6. ASSUME Distinct, NEW n \in DOMAIN cmd.code
        PROVE  /\ \A x \in Range(Tail(cmd.lines)) : x.obj = n => x.from = << "output", n >>
               /\ \/ \E x \in Range(Tail(cmd.lines)) : x.obj = n
                  \/ << cmd.dir, n >> \in DOMAIN objects' /\ objects'[<< cmd.dir, n >>] = cmd.code[n]
    <3>1. /\ \A x \in Range(cmd.lines) : x.obj = n => x.from = << "output", n >>
          /\ \/ \E x \in Range(cmd.lines) : x.obj = n
             \/ << cmd.dir, n >> \in DOMAIN objects /\ objects[<< cmd.dir, n >>] = cmd.code[n]
      BY <1>1, <2>6 DEF ScriptLines
    <3>2. CASE line.obj = n
      <4>1. line.from = << "output", n >>
        BY <2>5, <3>1, <3>2
      <4>2. ContentOf(line.from) = output[<< cmd.dir, n >>]
        BY <4>1 DEF ContentOf
      <4>3. output[<< cmd.dir, n >>] = cmd.code[n]
        BY <1>1, <2>6 DEF Generated
      <4>4. << cmd.dir, n >> \in DOMAIN objects' /\ objects'[<< cmd.dir, n >>] = cmd.code[n]
        BY <2>1, <3>2, <4>2, <4>3 DEF With
      <4> QED
        BY <2>5, <3>1, <4>4
    <3>3. CASE line.obj # n
      <4>1. << cmd.dir, line.obj >> # << cmd.dir, n >>
        BY <3>3
      <4>2. << cmd.dir, n >> \in DOMAIN objects => << cmd.dir, n >> \in DOMAIN objects' /\ objects'[<< cmd.dir, n >>] = objects[<< cmd.dir, n >>]
        BY <2>1, <4>1 DEF With
      <4> QED
        BY <2>5, <3>1, <3>3, <4>2
    <3> QED
      BY <3>2, <3>3
  <2>7. ScriptLines'
    <3>1. Distinct' = Distinct
      BY <2>3 DEF Distinct
    <3> QED
      BY <2>3, <2>5, <2>6, <3>1 DEF ScriptLines
  <2> QED
    BY <1>2, <2>3, <2>4, <2>7 DEF BuildInv
<1> QED
  BY <1>3, <1>4

LEMMA LinkKeeps ==
  ASSUME BuildInv, NEW ok \in BOOLEAN, ShellLink(ok)
  PROVE  BuildInv'
<1>1. /\ cmd.stage = "script" /\ cmd.lines = << >> /\ UNCHANGED executed
      /\ Generated /\ ScriptLines /\ CmdShape
  BY DEF ShellLink, BuildInv
<1>2. SourcesOK' /\ RunsWhatItBuilt'
  BY DEF ShellLink, sources, BuildInv, SourcesOK, RunsWhatItBuilt
<1>3. CASE cmd' = Idle
  BY <1>2, <1>3, EndedKeeps DEF Ended
<1>4. CASE cmd' # Idle
  <2>1. binaries' = With(binaries, << cmd.dir, cmd.link >>, Linked) /\ cmd' = [cmd EXCEPT !.stage = "run"]
    BY <1>4 DEF ShellLink
  <2>2. cmd' = CmdOf("run", cmd.dir, cmd.run_after, cmd.pkgs, cmd.lines, cmd.link, cmd.code)
    BY <1>1, <2>1 DEF CmdShape, CmdOf
  <2>3. cmd'.stage = "run" /\ cmd'.dir = cmd.dir /\ cmd'.link = cmd.link /\ cmd'.code = cmd.code /\ CmdShape'
    BY <2>2 DEF CmdOf, CmdShape
  <2>4. << cmd.dir, cmd.link >> \in DOMAIN binaries' /\ binaries'[<< cmd.dir, cmd.link >>] = Linked
    BY <2>1 DEF With
  <2>5. ASSUME Distinct, NEW n \in DOMAIN cmd.code
        PROVE  n \in DOMAIN Linked /\ Linked[n] = cmd.code[n]
    <3>1. Range(cmd.lines) = {}
      BY <1>1 DEF Range
    <3>2. << cmd.dir, n >> \in DOMAIN objects /\ objects[<< cmd.dir, n >>] = cmd.code[n]
      BY <1>1, <2>5, <3>1 DEF ScriptLines
    <3>3. n \in Range(cmd.pkgs)
      BY <1>1, <2>5 DEF Generated
    <3> QED
      BY <3>2, <3>3 DEF Linked
  <2>6. LinkedCode'
    <3>1. Distinct' = Distinct
      BY <2>3 DEF Distinct
    <3> QED
      BY <2>3, <2>4, <2>5, <3>1 DEF LinkedCode
  <2> QED
    BY <1>2, <2>3, <2>6 DEF BuildInv
<1> QED
  BY <1>3, <1>4

LEMMA RunKeeps ==
  ASSUME BuildInv, run_shell_script
  PROVE  BuildInv'
<1>1. LinkedCode /\ executed' = << binaries[<< cmd.dir, cmd.link >>], cmd.code >> /\ Ended
  BY DEF run_shell_script, BuildInv
<1>2. executed'[1] = binaries[<< cmd.dir, cmd.link >>] /\ executed'[2] = cmd.code
  BY <1>1
<1>3. RunsWhatItBuilt'
  BY <1>1, <1>2 DEF RunsWhatItBuilt, LinkedCode, Distinct
<1>4. SourcesOK'
  BY DEF run_shell_script, sources, BuildInv, SourcesOK
<1> QED
  BY <1>1, <1>3, <1>4, EndedKeeps

LEMMA CleanKeeps ==
  ASSUME BuildInv, NEW d \in Dirs, build_clean(d)
  PROVE  BuildInv'
<1>1. cmd.stage = "idle" /\ executed' = << >> /\ UNCHANGED << files, manifest, cmd >>
  BY DEF build_clean, sources
<1> QED
  BY <1>1 DEF BuildInv, SourcesOK, CmdShape, RunsWhatItBuilt

\* The invariant of the driver, for every way in which sources and manifests
\* change, lines of the script fail, and commands follow one another.
THEOREM BuildInvariant == BuildSpec => []BuildInv
<1>1. (\E start \in Starts : BuildInit(start)) => BuildInv
  <2>0. SUFFICES ASSUME NEW start \in Starts, BuildInit(start) PROVE BuildInv
    OBVIOUS
  <2>1. files \in FilesEver
    <3> DEFINE none == [p \in {} |-> p]
    <3>1. none \in Changes
      <4>1. none \in [{} -> { e[2] : e \in Edits }] /\ {} \in SUBSET { e[1] : e \in Edits }
        OBVIOUS
      <4> QED
        BY <4>1 DEF Changes
    <3>2. files = [p \in Paths |-> IF p \in DOMAIN none THEN none[p] ELSE start[p]]
      BY <2>0, ProjectsAssumption DEF BuildInit
    <3> HIDE DEF none
    <3> QED
      BY <2>0, <3>1, <3>2 DEF FilesEver
  <2> QED
    BY <2>0, <2>1, IdleShape DEF BuildInit, BuildInv, SourcesOK, CmdShape, CmdOf, RunsWhatItBuilt, Idle
<1>2. BuildInv /\ [BuildNext]_bvars => BuildInv'
  <2> SUFFICES ASSUME BuildInv, [BuildNext]_bvars PROVE BuildInv'
    OBVIOUS
  <2>1. CASE UNCHANGED bvars
    BY <2>1 DEF bvars, sources, made, BuildInv, SourcesOK, CmdShape, Generated, ScriptLines, Distinct, LinkedCode, RunsWhatItBuilt
  <2>2. CASE BuildNext
    BY <2>2, EditKeeps, CommandKeeps, ToolchainKeeps, CompileLineKeeps, LinkKeeps, RunKeeps, CleanKeeps DEF BuildNext
  <2> QED
    BY <2>1, <2>2
<1> QED
  BY <1>1, <1>2, PTL DEF BuildSpec

\* What `3b run` executes is made of the code this very command generated for
\* its packages, whatever compiler it calls, whatever is left in output/ and
\* whatever happens in between (build_invoke_toolchain, run_shell_script).
THEOREM RunsItsOwnBuild == BuildSpec => []RunsWhatItBuilt
<1>1. BuildInv => RunsWhatItBuilt
  BY DEF BuildInv
<1> QED
  BY <1>1, BuildInvariant, PTL
=============================================================================
