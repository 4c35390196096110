---------------------------- MODULE SourceReader ---------------------------
(***************************************************************************)
(* resolvePath and readSource of the parser: a requested path becomes a    *)
(* path below the data directory, and what is found there is read entry by *)
(* entry against the limits of archiveLimits.                              *)
(*                                                                         *)
(* An entry is a file or directory of the source.  Its size exists more    *)
(* than once: `stated` is what the listing of the directory or the header  *)
(* in the archive says, `stat` what os.Stat says when the file is about to *)
(* be read, `size` how many bytes there are to read.  For a symbolic link, *)
(* or a file that grows, they differ.                                      *)
(***************************************************************************)
EXTENDS Integers, Sequences, FiniteSets

CONSTANTS
  maxFileSize, maxFiles, maxTotalBytes,
  dataDir,  \* the data directory, as the sequence of its path elements
  File,     \* what may be written in a file
  Disk      \* what may be asked for and found: [requests, sources]

Archive == {"zip", "tar"}
Kind == Archive \cup {"dir", "gzip", "plain", "missing", "unreadable"}
Request == [blank : BOOLEAN, abs : BOOLEAN, segs : Seq(STRING)]
SourceEntry == [dir : BOOLEAN, stated : Nat, stat : Nat, size : Nat, sound : BOOLEAN, file : File]

ASSUME LimitsAssumption ==
  maxFileSize \in Nat /\ maxFiles \in Nat /\ maxTotalBytes \in Nat
\* filepath.Abs makes a clean path of the configured one.
ASSUME DataDirAssumption ==
  dataDir \in Seq(STRING) /\ \A k \in DOMAIN dataDir : dataDir[k] # ".."
ASSUME DiskAssumption ==
  \A x \in Disk :
    /\ x.requests \subseteq Request
    /\ \A s \in x.sources : s.kind \in Kind /\ s.entries \in Seq(SourceEntry)

VARIABLES
  request,  \* the requested path: [blank, abs, segs]
  path,     \* what resolvePath made of it
  source,   \* what is found there: [kind, entries]
  next,     \* the entry the reader is at
  limits,   \* archiveLimits: [files, total]
  files,    \* the entries read so far, by their positions
  held,     \* the bytes of their contents
  reading   \* "resolve", "open", "read", and then how readSource ends

sourceVars == <<request, path, source, next, limits, files, held, reading>>

Ends == {"ok", "ErrBadArguments", "ErrNotFound", "io", "canceled"}

SourceInit ==
  /\ \E x \in Disk : request \in x.requests /\ source \in x.sources
  /\ path = <<>>
  /\ next = 1
  /\ limits = [files |-> 0, total |-> 0]
  /\ files = <<>>
  /\ held = 0
  /\ reading = "resolve"

-----------------------------------------------------------------------------
\* filepath.Clean: ".." removes the element before it, and nothing at the root.
Up(segs, abs) ==
  IF segs # <<>> /\ segs[Len(segs)] # ".." THEN SubSeq(segs, 1, Len(segs) - 1)
  ELSE IF abs THEN segs ELSE Append(segs, "..")

Clean(segs, abs) ==
  LET done[k \in 0 .. Len(segs)] ==
        IF k = 0 THEN <<>>
        ELSE IF segs[k] = ".." THEN Up(done[k - 1], abs)
        ELSE Append(done[k - 1], segs[k])
  IN done[Len(segs)]

\* Mutant: the prefix is cut off before the path is cleaned.
CandidateUncleaned(r) ==
  IF r.abs /\ r.segs # <<>> /\ r.segs[1] = "data"
    THEN Clean(dataDir, TRUE) \o Tail(r.segs)
    ELSE Clean(IF r.abs THEN r.segs ELSE dataDir \o r.segs, TRUE)

\* An absolute path below /data is one below the data directory; a relative
\* path starts there.
Candidate(r) ==
  LET segs == Clean(r.segs, r.abs)
  IN IF ~ r.abs THEN Clean(dataDir \o segs, TRUE)
     ELSE IF segs # <<>> /\ segs[1] = "data" THEN dataDir \o Tail(segs)
     ELSE segs

IsBelow(segs, dir) == Len(dir) <= Len(segs) /\ SubSeq(segs, 1, Len(dir)) = dir

Ended(how) ==
  /\ reading' = how
  /\ UNCHANGED <<request, path, source, next, limits, files, held>>

ResolvePath ==
  /\ reading = "resolve"
  /\ IF request.blank \/ ~ IsBelow(Candidate(request), dataDir)
       THEN Ended("ErrBadArguments")
       ELSE /\ path' = Candidate(request)
            /\ reading' = "open"
            /\ UNCHANGED <<request, source, next, limits, files, held>>

Open ==
  /\ reading = "open"
  /\ CASE source.kind = "missing" -> Ended("ErrNotFound")
       [] source.kind = "unreadable" -> Ended("io")
       [] OTHER -> /\ reading' = "read"
                   /\ UNCHANGED <<request, path, source, next, limits, files, held>>

-----------------------------------------------------------------------------
Entry == source.entries[next]

\* The size addFile is given: of a gzip file, what was read of it.
Counted == IF source.kind = "gzip" THEN Entry.size ELSE Entry.stated

\* Mutant: the file is counted, but its size is not.
addFileForgetsTotal == [files |-> limits.files + 1, total |-> limits.total]

addFile == [files |-> limits.files + 1, total |-> limits.total + Counted]

\* Mutant: a source that just reaches a limit is over it.
OverLimitEarly ==
  \/ Counted >= maxFileSize
  \/ limits.files + 1 > maxFiles
  \/ limits.total + Counted > maxTotalBytes

\* The refusals of addFile; a plain file is not counted.
OverLimit ==
  /\ source.kind # "plain"
  /\ \/ Counted > maxFileSize
     \/ limits.files + 1 > maxFiles
     \/ limits.total + Counted > maxTotalBytes

\* readSmallFile looks at the size on the disk, the readers of archives at the
\* bytes they got, one more than is allowed at most.
TooLarge ==
  (IF source.kind \in {"dir", "plain"} THEN Entry.stat ELSE Entry.size) > maxFileSize

\* An archive entry that is shorter or longer than its header says is an error
\* of the library that reads it.
Broken ==
  \/ ~ Entry.sound
  \/ source.kind \in Archive /\ Entry.size # Entry.stated

AtEntry == reading = "read" /\ next <= Len(source.entries)

\* The reader of a ZIP does not open a directory; a subdirectory that the walk
\* cannot list, or a header that the reader of a TAR cannot read, is an error.
SkipDirectory ==
  /\ AtEntry
  /\ Entry.dir
  /\ Entry.sound \/ source.kind = "zip"
  /\ next' = next + 1
  /\ UNCHANGED <<request, path, source, limits, files, held, reading>>

\* Except in a ZIP, an entry may be unreadable before its size is looked at (the
\* errors of WalkDir, d.Info, os.Stat and the next header) or only after that.
RefuseFile ==
  /\ AtEntry
  /\ \/ ~ Entry.dir /\ (OverLimit \/ TooLarge) /\ Ended("ErrBadArguments")
     \/ ~ Entry.dir /\ ~ OverLimit /\ Broken /\ Ended("io")
     \/ ~ Entry.sound /\ source.kind # "zip" /\ Ended("io")

\* Mutant: a file that cannot be read is left out.
ReadReadableFile ==
  /\ AtEntry
  /\ ~ Entry.dir /\ ~ OverLimit /\ ~ TooLarge
  /\ limits' = IF source.kind = "plain" THEN limits ELSE addFile
  /\ files' = IF Broken THEN files ELSE Append(files, next)
  /\ held' = held + Entry.size
  /\ next' = next + 1
  /\ UNCHANGED <<request, path, source, reading>>

ReadFile ==
  /\ AtEntry
  /\ ~ Entry.dir /\ ~ OverLimit /\ ~ TooLarge /\ ~ Broken
  /\ limits' = IF source.kind = "plain" THEN limits ELSE addFile
  /\ files' = Append(files, next)
  /\ held' = held + Entry.size
  /\ next' = next + 1
  /\ UNCHANGED <<request, path, source, reading>>

\* The context is looked at before every entry, of a plain file never.
CancelReading ==
  /\ reading = "read"
  /\ source.kind # "plain"
  /\ Ended("canceled")

EndOfSource ==
  /\ reading = "read"
  /\ next > Len(source.entries)
  /\ Ended("ok")

SourceNext ==
  \/ ResolvePath
  \/ Open
  \/ SkipDirectory
  \/ RefuseFile
  \/ ReadFile
  \/ CancelReading
  \/ EndOfSource

SourceSpec == SourceInit /\ [][SourceNext]_sourceVars
-----------------------------------------------------------------------------
\* The counters of addFile, the place in the source and the list of files that
\* were read keep their types.
SourceTypeOK ==
  /\ reading \in {"resolve", "open", "read"} \cup Ends
  /\ next \in Nat
  /\ limits \in [files : Nat, total : Nat]
  /\ files \in Seq(Nat)
  /\ held \in Nat

AsListed(entry) == entry.stated = entry.size /\ entry.stat = entry.size

\* At every moment, and not only in the end, the contents in memory keep within
\* the limits, for every archive, whatever its headers claim, and for every
\* directory whose files are what its listing says they are.
WithinLimits ==
  source.kind # "plain" =>
    /\ Len(files) <= maxFiles
    /\ source.kind # "dir" \/ (\A k \in DOMAIN source.entries : AsListed(source.entries[k])) =>
         held <= maxTotalBytes

FilesUpTo(n) == {k \in 1 .. n : ~ source.entries[k].dir}

SizeAt(s, k) ==
  IF s.entries[k].dir THEN 0
  ELSE IF s.kind = "gzip" THEN s.entries[k].size ELSE s.entries[k].stated

\* The bytes that a source has up to an entry, as addFile is told of them.
TotalUpTo(s, n) ==
  LET total[k \in 0 .. n] == IF k = 0 THEN 0 ELSE total[k - 1] + SizeAt(s, k)
  IN total[n]

\* A source is refused for its size only if one of the three limits is exceeded
\* by what was seen of it: one that just reaches them all is read.
RefusalIsJustified ==
  reading = "ErrBadArguments" /\ path # <<>> =>
    LET e == source.entries[next]
    IN \/ \E size \in {e.stated, e.stat, e.size} : size > maxFileSize
       \/ source.kind # "plain" /\ Len(files) >= maxFiles
       \/ source.kind # "plain" /\ TotalUpTo(source, next) > maxTotalBytes

\* A source is read as a whole, in order, or not at all: no file that is
\* unreadable, too short or too long is passed over, and no directory that
\* cannot be listed.
AllOrNothing ==
  reading = "ok" =>
    /\ {files[k] : k \in DOMAIN files} = FilesUpTo(Len(source.entries))
    /\ \A j, k \in DOMAIN files : j < k => files[j] < files[k]
    /\ \A k \in DOMAIN source.entries :
         source.entries[k].sound \/ (source.entries[k].dir /\ source.kind = "zip")

\* A path that never climbs above its start, seen from the data directory.
Descends(segs) ==
  \A n \in DOMAIN segs :
    2 * Cardinality({k \in 1 .. n : segs[k] = ".."}) <= n

\* What is opened lies below the data directory, however ".." and the prefix
\* /data are combined; and a relative path that never climbs is not refused,
\* but looked for where it leads to.
PathStaysInside ==
  /\ path # <<>> =>
       /\ Len(path) >= Len(dataDir)
       /\ \A k \in DOMAIN path : path[k] # ".." /\ (k <= Len(dataDir) => path[k] = dataDir[k])
  /\ ~ request.blank /\ ~ request.abs /\ Descends(request.segs) =>
       reading = "resolve" \/ path = dataDir \o Clean(request.segs, FALSE)
=============================================================================
