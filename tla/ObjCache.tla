------------------------------ MODULE ObjCache ------------------------------
(***************************************************************************)
(* The cache of object files of the LLVM based compiler: writeModule of    *)
(* ldc/driver/toobj.cpp with cacheLookup, cacheObjectFile and              *)
(* recoverObjectFile of ldc/driver/cache.cpp, and the pruning of           *)
(* ldc/driver/cache_pruning.d.                                             *)
(*                                                                         *)
(* The cache directory is shared by compilers that run at the same time    *)
(* and know nothing of each other.  One action is one call of the file     *)
(* system; between any two of them the other compilers run, and a compiler *)
(* may be killed.  A file that is being written is opened in one action    *)
(* and complete in a later one.                                            *)
(*                                                                         *)
(* The hash of a module stands for its object code.  Which entries are     *)
(* expired, or the oldest when the cache is too large, depends on times    *)
(* and sizes that are not modelled: pruning may choose any entry.          *)
(***************************************************************************)
CONSTANTS
  Compilers,   \* invocations of the compiler, each of them for one module
  Hashes,      \* module hashes
  Outputs,     \* names of object files
  Modes,       \* the values of -cache-retrieval that are looked at
  NoFile       \* there is no file of that name

ASSUME ModesAssumption == Modes \subseteq {"copy", "hardlink", "symlink"}

(* A compiler creates at most one object file, its temporary file, and the *)
(* temporary file again when somebody removed it in the meantime.          *)
Files == Compilers \X {"object", "temp", "again"}

ASSUME NamesAssumption ==
  /\ NoFile \notin Files /\ NoFile \notin Hashes
  /\ "none" \notin Hashes /\ "partial" \notin Hashes
  /\ Files \cap Hashes = {}

VARIABLES
  mode,        \* cacheRecoveryMode
  cache,       \* the entry of a hash in the cache directory, a file
  temp,        \* the temporary file of a compiler in the cache directory
  output,      \* what an output name is: a file, or a symbolic link to an entry
  content,     \* "none", "partial", or the hash whose object code a file holds
  pc, hash, out,  \* of a compiler: where it is, its module and its output name
  source, dest,   \* of a compiler: the files it has open
  opened,      \* of a pruner: the entries of the cache when it opened the directory
  listed,      \* of a pruner: directory entries it has still to look at
  candidates,  \* of a pruner: pruneForSizeCandidates
  pruned       \* history: some file was pruned

files == <<cache, temp, output, content>>
locals == <<hash, out, source, dest>>
pruning == <<opened, listed, candidates, pruned>>
vars == <<mode, files, pc, locals, pruning>>

Goto(c, label) == pc' = [pc EXCEPT ![c] = label]

(* fatal() *)
Fail(c) == Goto(c, "failed") /\ UNCHANGED <<files, source, dest>>

(* The file an output name stands for, through a symbolic link if it is one. *)
Resolve(o) == IF output[o] \in Hashes THEN cache[output[o]] ELSE output[o]

(* Opening file f for writing empties it. *)
Truncate(c, f) ==
  /\ content' = [content EXCEPT ![f] = "partial"]
  /\ dest' = [dest EXCEPT ![c] = f]

(* A copy is complete when all that the source holds has been read. *)
FinishCopy(c) == content' = [content EXCEPT ![dest[c]] = content[source[c]]]

Running(c) == pc[c] \notin {"new", "done", "failed", "killed"}

-----------------------------------------------------------------------------
(* writeModule.  Nobody runs two compilers with one output at a time.      *)

writeModule(c) ==
  /\ pc[c] = "new"
  /\ \A d \in Compilers : Running(d) => out[d] # out[c]
  /\ Goto(c, "lookup")
  /\ UNCHANGED <<mode, files, locals, pruning>>

\* Mutant: the entry is not looked for.
cacheLookupBlind(c) ==
  /\ pc[c] = "lookup"
  /\ Goto(c, "recover")
  /\ UNCHANGED <<mode, files, locals, pruning>>

cacheLookup(c) ==
  /\ pc[c] = "lookup"
  /\ Goto(c, IF cache[hash[c]] # NoFile THEN "recover" ELSE "codegen")
  /\ UNCHANGED <<mode, files, locals, pruning>>

(* codegenModule: ToolOutputFile opens the output in place. *)
OpenOutput(c) ==
  /\ pc[c] = "codegen"
  /\ LET there == Resolve(out[c])
         f == IF there # NoFile THEN there ELSE <<c, "object">>
     IN  /\ Truncate(c, f)
         /\ IF output[out[c]] \in Hashes
            THEN cache' = [cache EXCEPT ![output[out[c]]] = f] /\ UNCHANGED output
            ELSE output' = [output EXCEPT ![out[c]] = f] /\ UNCHANGED cache
  /\ Goto(c, "writing")
  /\ UNCHANGED <<mode, temp, hash, out, source, pruning>>

Passes(c) ==
  /\ pc[c] = "writing"
  /\ content' = [content EXCEPT ![dest[c]] = hash[c]]
  /\ Goto(c, "cacheObject")
  /\ UNCHANGED <<mode, cache, temp, output, locals, pruning>>

-----------------------------------------------------------------------------
(* cacheObjectFile: copy to a temporary file, then rename that.            *)

\* Mutant: the entry itself is created and then filled.
createUniqueFileInPlace(c) ==
  /\ pc[c] = "cacheObject"
  /\ temp' = [temp EXCEPT ![c] = <<c, "temp">>]
  /\ cache' = [cache EXCEPT ![hash[c]] = <<c, "temp">>]
  /\ content' = [content EXCEPT ![<<c, "temp">>] = "partial"]
  /\ Goto(c, "copy")
  /\ UNCHANGED <<mode, output, locals, pruning>>

createUniqueFile(c) ==
  /\ pc[c] = "cacheObject"
  /\ temp' = [temp EXCEPT ![c] = <<c, "temp">>]
  /\ content' = [content EXCEPT ![<<c, "temp">>] = "partial"]
  /\ Goto(c, "copy")
  /\ UNCHANGED <<mode, cache, output, locals, pruning>>

OpenTemp(c) ==
  /\ pc[c] = "copy"
  /\ LET f == IF temp[c] = NoFile THEN <<c, "again">> ELSE temp[c]
     IN  IF Resolve(out[c]) = NoFile THEN Fail(c)
         ELSE /\ Truncate(c, f)
              /\ temp' = [temp EXCEPT ![c] = f]
              /\ source' = [source EXCEPT ![c] = Resolve(out[c])]
              /\ Goto(c, "copying")
              /\ UNCHANGED <<cache, output>>
  /\ UNCHANGED <<mode, hash, out, pruning>>

CopyToTemp(c) ==
  /\ pc[c] = "copying"
  /\ FinishCopy(c)
  /\ Goto(c, "rename")
  /\ UNCHANGED <<mode, cache, temp, output, locals, pruning>>

\* Mutant: the temporary file is removed instead of renamed.
renameDrops(c) ==
  /\ pc[c] = "rename"
  /\ temp' = [temp EXCEPT ![c] = NoFile]
  /\ Goto(c, "prune")
  /\ UNCHANGED <<mode, cache, output, content, locals, pruning>>

rename(c) ==
  /\ pc[c] = "rename"
  /\ IF temp[c] = NoFile THEN Fail(c)
     ELSE /\ cache' = [cache EXCEPT ![hash[c]] = temp[c]]
          /\ temp' = [temp EXCEPT ![c] = NoFile]
          /\ Goto(c, "prune")
          /\ UNCHANGED <<output, content, source, dest>>
  /\ UNCHANGED <<mode, hash, out, pruning>>

-----------------------------------------------------------------------------
(* recoverObjectFile: remove the output, then copy the entry or link to it. *)

remove(c) ==
  /\ pc[c] = "recover"
  /\ output' = [output EXCEPT ![out[c]] = NoFile]
  /\ Goto(c, "retrieve")
  /\ UNCHANGED <<mode, cache, temp, content, locals, pruning>>

copy_file(c) ==
  /\ pc[c] = "retrieve" /\ mode = "copy"
  /\ IF cache[hash[c]] = NoFile THEN Fail(c)
     ELSE /\ Truncate(c, <<c, "object">>)
          /\ output' = [output EXCEPT ![out[c]] = <<c, "object">>]
          /\ source' = [source EXCEPT ![c] = cache[hash[c]]]
          /\ Goto(c, "retrieving")
          /\ UNCHANGED <<cache, temp>>
  /\ UNCHANGED <<mode, hash, out, pruning>>

\* Mutant: the copy is not waited for.
FinishRetrievalEarly(c) ==
  /\ pc[c] = "retrieving"
  /\ Goto(c, "touch")
  /\ UNCHANGED <<mode, files, locals, pruning>>

FinishRetrieval(c) ==
  /\ pc[c] = "retrieving"
  /\ FinishCopy(c)
  /\ Goto(c, "touch")
  /\ UNCHANGED <<mode, cache, temp, output, locals, pruning>>

createHardLink(c) ==
  /\ pc[c] = "retrieve" /\ mode = "hardlink"
  /\ IF cache[hash[c]] = NoFile THEN Fail(c)
     ELSE /\ output' = [output EXCEPT ![out[c]] = cache[hash[c]]]
          /\ Goto(c, "touch")
          /\ UNCHANGED <<cache, temp, content, source, dest>>
  /\ UNCHANGED <<mode, hash, out, pruning>>

createSymLink(c) ==
  /\ pc[c] = "retrieve" /\ mode = "symlink"
  /\ output' = [output EXCEPT ![out[c]] = hash[c]]
  /\ Goto(c, "touch")
  /\ UNCHANGED <<mode, cache, temp, content, locals, pruning>>

(* The entry is opened to set its times. *)
setLastAccessAndModificationTime(c) ==
  /\ pc[c] = "touch"
  /\ IF cache[hash[c]] = NoFile THEN Fail(c)
     ELSE Goto(c, "prune") /\ UNCHANGED <<files, source, dest>>
  /\ UNCHANGED <<mode, hash, out, pruning>>

-----------------------------------------------------------------------------
(* pruneCache, at the end of codegenModules.  A file that cannot be        *)
(* removed is skipped.                                                     *)

Listing(f) == {x \in DOMAIN f : f[x] # NoFile}

(* Pruning is off, or the interval has not passed, or it starts. *)
hasPruneIntervalPassed(c) ==
  /\ pc[c] = "prune"
  /\ \/ Goto(c, "done") /\ UNCHANGED <<opened, listed>>
     \/ /\ opened' = [opened EXCEPT ![c] = Listing(cache)]
        /\ listed' = [listed EXCEPT ![c] = Listing(temp)]
        /\ Goto(c, "deleteTemps")
  /\ UNCHANGED <<mode, files, locals, candidates, pruned>>

deleteTemp(c, d) ==
  /\ pc[c] = "deleteTemps" /\ d \in listed[c]
  /\ listed' = [listed EXCEPT ![c] = @ \ {d}]
  /\ temp' = [temp EXCEPT ![d] = NoFile]
  /\ pruned' = (pruned \/ temp[d] # NoFile)
  /\ UNCHANGED <<mode, cache, output, content, pc, locals, opened, candidates>>

(* The directory was opened before the temporary files were removed, and   *)
(* is read now: of an entry that has come or gone since then, readdir may  *)
(* tell or not.                                                            *)
ListEntries(c) ==
  /\ pc[c] = "deleteTemps" /\ listed[c] = {}
  /\ \E new \in SUBSET ((opened[c] \ Listing(cache)) \cup (Listing(cache) \ opened[c])) :
       listed' = [listed EXCEPT ![c] = (opened[c] \cap Listing(cache)) \cup new]
  /\ opened' = [opened EXCEPT ![c] = {}]
  /\ Goto(c, "expire")
  /\ UNCHANGED <<mode, files, locals, candidates, pruned>>

(* The times of an entry are read outside the try block: when it is gone,  *)
(* the exception ends the compiler.                                        *)
pruneForExpiry(c, h) ==
  /\ pc[c] = "expire" /\ h \in listed[c]
  /\ listed' = [listed EXCEPT ![c] = @ \ {h}]
  /\ \/ /\ cache[h] = NoFile
        /\ Fail(c)
        /\ UNCHANGED <<candidates, pruned>>
     \/ /\ cache[h] # NoFile
        /\ cache' = [cache EXCEPT ![h] = NoFile]
        /\ pruned' = TRUE
        /\ UNCHANGED <<temp, output, content, pc, source, dest, candidates>>
     \/ /\ cache[h] # NoFile
        /\ candidates' = [candidates EXCEPT ![c] = @ \cup {h}]
        /\ UNCHANGED <<files, pc, source, dest, pruned>>
  /\ UNCHANGED <<mode, hash, out, opened>>

pruneForSize(c) ==
  /\ pc[c] = "expire" /\ listed[c] = {}
  /\ Goto(c, "shrink")
  /\ UNCHANGED <<mode, files, locals, pruning>>

RemoveCandidate(c, h) ==
  /\ pc[c] = "shrink" /\ h \in candidates[c]
  /\ candidates' = [candidates EXCEPT ![c] = @ \ {h}]
  /\ cache' = [cache EXCEPT ![h] = NoFile]
  /\ pruned' = (pruned \/ cache[h] # NoFile)
  /\ UNCHANGED <<mode, temp, output, content, pc, locals, opened, listed>>

SmallEnough(c) ==
  /\ pc[c] = "shrink"
  /\ Goto(c, "done")
  /\ candidates' = [candidates EXCEPT ![c] = {}]
  /\ UNCHANGED <<mode, files, locals, opened, listed, pruned>>

(* The process is killed, or an error ends it: files stay as they are. *)
Kill(c) ==
  /\ Running(c)
  /\ Goto(c, "killed")
  /\ UNCHANGED <<mode, files, locals, pruning>>

-----------------------------------------------------------------------------
Init ==
  /\ mode \in Modes
  /\ cache = [h \in Hashes |-> NoFile]
  /\ temp = [c \in Compilers |-> NoFile]
  /\ output = [o \in Outputs |-> NoFile]
  /\ content = [f \in Files |-> "none"]
  /\ pc = [c \in Compilers |-> "new"]
  /\ hash \in [Compilers -> Hashes] /\ out \in [Compilers -> Outputs]
  /\ source = [c \in Compilers |-> NoFile] /\ dest = [c \in Compilers |-> NoFile]
  /\ opened = [c \in Compilers |-> {}]
  /\ listed = [c \in Compilers |-> {}] /\ candidates = [c \in Compilers |-> {}]
  /\ pruned = FALSE

Step(c) ==
  \/ writeModule(c) \/ cacheLookup(c) \/ OpenOutput(c) \/ Passes(c)
  \/ createUniqueFile(c) \/ OpenTemp(c) \/ CopyToTemp(c) \/ rename(c)
  \/ remove(c) \/ copy_file(c) \/ FinishRetrieval(c)
  \/ createHardLink(c) \/ createSymLink(c) \/ setLastAccessAndModificationTime(c)
  \/ hasPruneIntervalPassed(c) \/ ListEntries(c) \/ pruneForSize(c) \/ SmallEnough(c)
  \/ \E d \in Compilers : deleteTemp(c, d)
  \/ \E h \in Hashes : pruneForExpiry(c, h) \/ RemoveCandidate(c, h)
  \/ Kill(c)

Next == \E c \in Compilers : Step(c)

Spec == Init /\ [][Next]_vars

-----------------------------------------------------------------------------
Labels ==
  {"new", "lookup", "codegen", "writing", "cacheObject", "copy", "copying", "rename",
   "recover", "retrieve", "retrieving", "touch", "prune", "deleteTemps", "expire",
   "shrink", "done", "failed", "killed"}

(* A compiler that writes or copies has the files open, and nobody copies  *)
(* from an entry or an output that was not there.                          *)
Opened ==
  \A c \in Compilers :
    /\ pc[c] \in {"writing", "copying", "retrieving"} => dest[c] \in Files
    /\ pc[c] \in {"copying", "retrieving"} => source[c] \in Files

(* The types.  They depend on Opened: what a copy stores is the content of *)
(* its source (copy_file, cacheObjectFile).                                *)
TypeOK ==
  /\ mode \in Modes
  /\ cache \in [Hashes -> Files \cup {NoFile}]
  /\ temp \in [Compilers -> Files \cup {NoFile}]
  /\ output \in [Outputs -> Files \cup Hashes \cup {NoFile}]
  /\ content \in [Files -> Hashes \cup {"none", "partial"}]
  /\ pc \in [Compilers -> Labels]
  /\ hash \in [Compilers -> Hashes] /\ out \in [Compilers -> Outputs]
  /\ source \in [Compilers -> Files \cup {NoFile}]
  /\ dest \in [Compilers -> Files \cup {NoFile}]
  /\ opened \in [Compilers -> SUBSET Hashes]
  /\ listed \in [Compilers -> SUBSET (Compilers \cup Hashes)]
  /\ candidates \in [Compilers -> SUBSET Hashes]
  /\ pruned \in BOOLEAN
  /\ Opened

(* Every entry of the cache is complete and holds the object code of its   *)
(* hash, whoever writes, recovers, prunes or is killed at the same time    *)
(* (cacheObjectFile: "To prevent bad cache files ...").                    *)
EntriesGood == \A h \in Hashes : cache[h] # NoFile => content[cache[h]] = h

(* It is so when objects are copied out of the cache. *)
CopiedEntriesGood == mode = "copy" => EntriesGood

(* A compiler that gets to the end of writeModule leaves the object code   *)
(* of its own module in its output, whether it compiled it or recovered it *)
(* (writeModule, recoverObjectFile).                                       *)
OutputCorrect ==
  [][\A c \in Compilers :
       (mode = "copy" /\ pc[c] # "prune" /\ pc'[c] = "prune") =>
          output'[out[c]] \in Files /\ content'[output'[out[c]]] = hash[c]]_vars

(* What a compiler has stored or found stays in the cache until somebody   *)
(* prunes: the next compilation of the module finds it (cacheObjectFile,   *)
(* cacheLookup).                                                           *)
FinishedIsCached ==
  \A c \in Compilers :
    pc[c] \in {"prune", "done"} /\ ~pruned => cache[hash[c]] # NoFile

(* Compilers that share a cache make each other fail only by pruning it:   *)
(* an entry or a temporary file vanishes between two calls                 *)
(* (recoverObjectFile, cacheObjectFile, pruneForExpiry).                   *)
FailsOnlyByPruning == (\E c \in Compilers : pc[c] = "failed") => pruned
=============================================================================
