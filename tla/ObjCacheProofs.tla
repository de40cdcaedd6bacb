--------------------------- MODULE ObjCacheProofs ---------------------------
(***************************************************************************)
(* For any number of compilers, modules and outputs: the files of ObjCache *)
(* have the types that TypeOK says, and in copy mode every cache entry is  *)
(* good and every compiler that finishes leaves its own object code.  In   *)
(* every mode, until somebody prunes, what was stored or found stays in    *)
(* the cache and no compiler fails.                                        *)
(***************************************************************************)
EXTENDS ObjCache, TLAPS

Objects == Compilers \X {"object"}
Temps == Compilers \X {"temp", "again"}

\* It has not yet created its output file.
Fresh == {"new", "lookup", "codegen", "recover", "retrieve"}

\* Its output is complete.
Written == {"cacheObject", "copy", "copying", "rename", "touch"}

\* It may still write to its temporary files.
Before == Fresh \cup Written \cup {"writing", "retrieving"}

ExclusiveOutputs ==
  \A c, d \in Compilers : Running(c) /\ Running(d) /\ out[c] = out[d] => c = d

(* Output names lead to object files, each to one of its own. *)
OwnObjects ==
  /\ \A o \in Outputs : output[o] \in Objects \cup {NoFile}
  /\ \A o, p \in Outputs : output[o] = output[p] /\ output[o] # NoFile => o = p
  /\ \A c \in Compilers : pc[c] \in Fresh => \A o \in Outputs : output[o] # <<c, "object">>

OwnTemps ==
  \A c \in Compilers : temp[c] \in {<<c, "temp">>, <<c, "again">>, NoFile}

(* What the open files are. *)
Descriptors ==
  \A c \in Compilers :
    /\ pc[c] \in {"writing", "retrieving"} => dest[c] = output[out[c]] /\ dest[c] \in Objects
    /\ pc[c] = "copying" => /\ dest[c] \in {<<c, "temp">>, <<c, "again">>}
                            /\ source[c] = output[out[c]]
                            /\ temp[c] \in {NoFile, dest[c]}

Produced ==
  \A c \in Compilers :
    pc[c] \in Written => output[out[c]] \in Objects /\ content[output[out[c]]] = hash[c]

TempReady ==
  \A c \in Compilers : pc[c] = "rename" /\ temp[c] # NoFile => content[temp[c]] = hash[c]

(* Nobody will write to file f any more. *)
Sealed(f) == f \in Temps /\ \A c \in Compilers : pc[c] \in Before => f \notin {<<c, "temp">>, <<c, "again">>}

EntriesSealed ==
  \A h \in Hashes : cache[h] # NoFile => Sealed(cache[h]) /\ content[cache[h]] = h

SourceSealed ==
  \A c \in Compilers :
    pc[c] = "retrieving" => Sealed(source[c]) /\ content[source[c]] = hash[c]

CopyInv ==
  mode = "copy" =>
    /\ ExclusiveOutputs /\ OwnObjects /\ OwnTemps /\ Descriptors
    /\ Produced /\ TempReady /\ EntriesSealed /\ SourceSealed

IInv == TypeOK /\ CopyInv

-----------------------------------------------------------------------------
(* A name and a kind of file make a file, and different ones another. *)
LEMMA FileNames ==
  /\ NoFile \notin Files
  /\ \A c \in Compilers : <<c, "object">> \in Files /\ <<c, "temp">> \in Files
                          /\ <<c, "again">> \in Files
BY NamesAssumption DEF Files

(* No file is open before the first compiler starts. *)
LEMMA InitTypeOK == Init => TypeOK
<1> SUFFICES ASSUME Init PROVE TypeOK
  OBVIOUS
<1>1. pruned \in BOOLEAN
  BY DEF Init
<1>2. Opened
  BY DEF Init, Opened
<1>3. QED
  BY <1>1, <1>2 DEF Init, TypeOK, Labels

(* Every file system call keeps the types, and a compiler is at a copy     *)
(* only after it has opened both files.                                    *)
LEMMA NextTypeOK == TypeOK /\ [Next]_vars => TypeOK'
<1> SUFFICES ASSUME TypeOK, [Next]_vars
             PROVE  TypeOK'
  OBVIOUS
<1> USE DEF TypeOK, Opened, Labels
<1>1. ASSUME NEW c \in Compilers, writeModule(c) PROVE TypeOK'
  BY <1>1, FileNames DEF writeModule, Goto, files, locals, pruning
<1>2. ASSUME NEW c \in Compilers, cacheLookup(c) PROVE TypeOK'
  BY <1>2, FileNames DEF cacheLookup, Goto, files, locals, pruning
<1>3. ASSUME NEW c \in Compilers, OpenOutput(c) PROVE TypeOK'
  <2>1. PICK f \in Files :
          /\ content' = [content EXCEPT ![f] = "partial"]
          /\ dest' = [dest EXCEPT ![c] = f]
          /\ IF output[out[c]] \in Hashes
             THEN cache' = [cache EXCEPT ![output[out[c]]] = f] /\ UNCHANGED output
             ELSE output' = [output EXCEPT ![out[c]] = f] /\ UNCHANGED cache
    BY <1>3, FileNames DEF OpenOutput, Truncate, Resolve
  <2>2. pc' = [pc EXCEPT ![c] = "writing"] /\ UNCHANGED <<mode, temp, hash, out, source, pruning>>
    BY <1>3 DEF OpenOutput, Goto
  <2>3. QED
    BY <2>1, <2>2 DEF pruning
<1>4. ASSUME NEW c \in Compilers, Passes(c) PROVE TypeOK'
  BY <1>4, FileNames DEF Passes, Goto, files, locals, pruning
<1>5. ASSUME NEW c \in Compilers, createUniqueFile(c) PROVE TypeOK'
  BY <1>5, FileNames DEF createUniqueFile, Goto, files, locals, pruning
<1>6. ASSUME NEW c \in Compilers, OpenTemp(c) PROVE TypeOK'
  <2>1. CASE Resolve(out[c]) = NoFile
    BY <1>6, <2>1 DEF OpenTemp, Goto, files, locals, pruning, Fail
  <2>2. CASE Resolve(out[c]) # NoFile
    <3>1. Resolve(out[c]) \in Files
      BY <2>2 DEF Resolve
    <3>2. PICK f \in Files : /\ content' = [content EXCEPT ![f] = "partial"]
                            /\ dest' = [dest EXCEPT ![c] = f]
                            /\ temp' = [temp EXCEPT ![c] = f]
      BY <1>6, <2>2, FileNames DEF OpenTemp, Truncate
    <3>3. QED
      BY <1>6, <2>2, <3>1, <3>2 DEF OpenTemp, Goto, files, locals, pruning
  <2>3. QED
    BY <2>1, <2>2
<1>7. ASSUME NEW c \in Compilers, CopyToTemp(c) PROVE TypeOK'
  BY <1>7, FileNames DEF CopyToTemp, Goto, files, locals, pruning, FinishCopy
<1>8. ASSUME NEW c \in Compilers, rename(c) PROVE TypeOK'
  BY <1>8, FileNames DEF rename, Goto, files, locals, pruning, Fail
<1>9. ASSUME NEW c \in Compilers, remove(c) PROVE TypeOK'
  BY <1>9, FileNames DEF remove, Goto, files, locals, pruning
<1>10. ASSUME NEW c \in Compilers, copy_file(c) PROVE TypeOK'
  <2>1. CASE cache[hash[c]] = NoFile
    BY <1>10, <2>1 DEF copy_file, Goto, files, locals, pruning, Fail
  <2>2. CASE cache[hash[c]] # NoFile
    <3>1. PICK f \in Files : /\ content' = [content EXCEPT ![f] = "partial"]
                            /\ dest' = [dest EXCEPT ![c] = f]
                            /\ output' = [output EXCEPT ![out[c]] = f]
      BY <1>10, <2>2, FileNames DEF copy_file, Truncate
    <3>2. PICK e \in Files : source' = [source EXCEPT ![c] = e]
      BY <1>10, <2>2 DEF copy_file
    <3>3. QED
      BY <1>10, <2>2, <3>1, <3>2 DEF copy_file, Goto, files, locals, pruning
  <2>3. QED
    BY <2>1, <2>2
<1>11. ASSUME NEW c \in Compilers, FinishRetrieval(c) PROVE TypeOK'
  BY <1>11, FileNames DEF FinishRetrieval, Goto, files, locals, pruning, FinishCopy
<1>12. ASSUME NEW c \in Compilers, createHardLink(c) PROVE TypeOK'
  BY <1>12, FileNames DEF createHardLink, Goto, files, locals, pruning, Fail
<1>13. ASSUME NEW c \in Compilers, createSymLink(c) PROVE TypeOK'
  BY <1>13, FileNames DEF createSymLink, Goto, files, locals, pruning
<1>14. ASSUME NEW c \in Compilers, setLastAccessAndModificationTime(c) PROVE TypeOK'
  BY <1>14, FileNames DEF setLastAccessAndModificationTime, Goto, files, locals, pruning, Fail
<1>15. ASSUME NEW c \in Compilers, hasPruneIntervalPassed(c) PROVE TypeOK'
  BY <1>15, FileNames DEF hasPruneIntervalPassed, Goto, files, locals, pruning, Listing
<1>16. ASSUME NEW c \in Compilers, ListEntries(c) PROVE TypeOK'
  BY <1>16, FileNames DEF ListEntries, Goto, files, locals, pruning, Listing
<1>17. ASSUME NEW c \in Compilers, pruneForSize(c) PROVE TypeOK'
  BY <1>17, FileNames DEF pruneForSize, Goto, files, locals, pruning
<1>18. ASSUME NEW c \in Compilers, SmallEnough(c) PROVE TypeOK'
  BY <1>18, FileNames DEF SmallEnough, Goto, files, locals, pruning
<1>19. ASSUME NEW c \in Compilers, Kill(c) PROVE TypeOK'
  BY <1>19, FileNames DEF Kill, Goto, files, locals, pruning, Running
<1>20. ASSUME NEW c \in Compilers, NEW d \in Compilers, deleteTemp(c, d) PROVE TypeOK'
  BY <1>20 DEF deleteTemp, files, locals, pruning
<1>21. ASSUME NEW c \in Compilers, NEW h \in Hashes, pruneForExpiry(c, h) PROVE TypeOK'
  <2>1. pruned' \in BOOLEAN
    BY <1>21 DEF pruneForExpiry
  <2>2. listed' \in [Compilers -> SUBSET (Compilers \cup Hashes)]
    BY <1>21 DEF pruneForExpiry
  <2>3. QED
    BY <1>21, <2>1, <2>2 DEF pruneForExpiry, Goto, Fail, files, locals, pruning
<1>22. ASSUME NEW c \in Compilers, NEW h \in Hashes, RemoveCandidate(c, h) PROVE TypeOK'
  BY <1>22 DEF RemoveCandidate, files, locals, pruning
<1>23. CASE UNCHANGED vars
  BY <1>23 DEF vars, files, locals, pruning
<1>24. QED
  BY <1>1, <1>2, <1>3, <1>4, <1>5, <1>6, <1>7, <1>8, <1>9, <1>10, <1>11, <1>12, <1>13, <1>14, <1>15, <1>16, <1>17, <1>18, <1>19, <1>20, <1>21, <1>22, <1>23 DEF Next, Step

(* TypeOK is an invariant for any number of compilers, hashes and outputs  *)
(* in every retrieval mode: no step of writeModule, of the recovery or of  *)
(* the pruner copies from or to a file it has not opened.                  *)
THEOREM TypeOKHolds == Spec => []TypeOK
<1>1. QED
  BY InitTypeOK, NextTypeOK, PTL DEF Spec

-----------------------------------------------------------------------------
(* Object files and temporary files are different, whoever they belong to. *)
LEMMA FileKinds ==
  /\ \A c, d \in Compilers :
       /\ <<c, "object">> # <<d, "temp">> /\ <<c, "object">> # <<d, "again">>
       /\ <<c, "temp">> # <<d, "again">>
       /\ <<c, "object">> = <<d, "object">> => c = d
       /\ <<c, "temp">> = <<d, "temp">> => c = d
       /\ <<c, "again">> = <<d, "again">> => c = d
  /\ \A c \in Compilers : /\ <<c, "object">> \in Objects
                          /\ <<c, "temp">> \in Temps /\ <<c, "again">> \in Temps
  /\ Objects \subseteq Files /\ Temps \subseteq Files
  /\ Objects \cap Temps = {}
  /\ \A f \in Objects : \E c \in Compilers : f = <<c, "object">>
  /\ \A f \in Temps : \E c \in Compilers : f = <<c, "temp">> \/ f = <<c, "again">>
BY DEF Objects, Temps, Files

(* There are no files at all at first. *)
LEMMA InitCopyInv == Init => CopyInv
<1> SUFFICES ASSUME Init PROVE CopyInv
  OBVIOUS
<1>1. ExclusiveOutputs /\ Descriptors /\ Produced /\ TempReady /\ SourceSealed
  BY DEF Init, ExclusiveOutputs, Descriptors, Produced, TempReady, SourceSealed,
         Running, Written
<1>2. OwnObjects /\ OwnTemps /\ EntriesSealed
  BY FileNames DEF Init, OwnObjects, OwnTemps, EntriesSealed
<1>3. QED
  BY <1>1, <1>2 DEF CopyInv

(* Compilers that run keep their outputs to themselves. *)
LEMMA StaysExclusive ==
  ASSUME TypeOK, ExclusiveOutputs, NEW c \in Compilers, NEW l, Goto(c, l), out' = out,
         \A d \in Compilers : d # c /\ Running(d) => out[d] # out[c]
  PROVE  ExclusiveOutputs'
BY DEF TypeOK, ExclusiveOutputs, Goto, Running

(* A step that changes nothing but where a compiler is.  This is all that  *)
(* happens to the files of a compiler that fails or is killed.             *)
LEMMA MoveCopyInv ==
  ASSUME TypeOK, CopyInv, mode = "copy", UNCHANGED <<mode, files, locals>>,
         NEW c \in Compilers,
         NEW l \in Labels \ ({"new", "retrieve", "writing", "retrieving"} \cup Written),
         Goto(c, l), l \in Fresh => pc[c] \in Fresh,
         \A d \in Compilers : d # c /\ Running(d) => out[d] # out[c]
  PROVE  CopyInv'
<1> USE DEF TypeOK, CopyInv, files, locals, Goto
<1>1. ExclusiveOutputs'
  BY StaysExclusive
<1>2. OwnObjects' /\ OwnTemps'
  BY DEF OwnObjects, OwnTemps
<1>3. Descriptors' /\ Produced' /\ TempReady'
  BY DEF Descriptors, Produced, TempReady, Written, Labels
<1>4. ASSUME NEW f, Sealed(f) PROVE Sealed(f)'
  BY <1>4 DEF Sealed, Before, Fresh, Written, Labels
<1>5. EntriesSealed' /\ SourceSealed'
  BY <1>4 DEF EntriesSealed, SourceSealed, Written
<1>6. QED
  BY <1>1, <1>2, <1>3, <1>5

(* A pruner takes a file from the directory; whoever has it open, keeps it. *)
LEMMA PruneCopyInv ==
  ASSUME TypeOK, CopyInv, mode = "copy", UNCHANGED <<mode, output, content, pc, locals>>,
         \A h \in Hashes : cache'[h] \in {cache[h], NoFile},
         \A c \in Compilers : temp'[c] \in {temp[c], NoFile}
  PROVE  CopyInv'
<1> USE DEF TypeOK, CopyInv, locals
<1>1. ExclusiveOutputs' /\ OwnObjects' /\ OwnTemps' /\ Produced'
  BY DEF ExclusiveOutputs, OwnObjects, OwnTemps, Produced, Running
<1>2. Descriptors' /\ TempReady'
  BY DEF Descriptors, TempReady
<1>3. EntriesSealed' /\ SourceSealed'
  BY DEF EntriesSealed, SourceSealed, Sealed
<1>4. QED
  BY <1>1, <1>2, <1>3

(* A step that changes only the output of a compiler that runs, to an      *)
(* object file f of its own or to nothing, and the content of f.  Only the *)
(* compiler itself has anything to prove about the new content.            *)
LEMMA OutputCopyInv ==
  ASSUME TypeOK, TypeOK', CopyInv, mode = "copy", UNCHANGED <<mode, cache, temp, hash, out>>,
         NEW c \in Compilers, Running(c), NEW l, Goto(c, l), NEW f \in Objects,
         f = output[out[c]] \/ (f = <<c, "object">> /\ pc[c] \in Fresh),
         output'[out[c]] \in {f, NoFile},
         \A o \in Outputs : o # out[c] => output'[o] = output[o],
         \A e \in Files : e # f => content'[e] = content[e],
         l \in Fresh => pc[c] \in Fresh /\ output'[out[c]] = NoFile,
         \A d \in Compilers : d # c => dest'[d] = dest[d] /\ source'[d] = source[d],
         l \in {"writing", "retrieving"} => dest'[c] = f /\ output'[out[c]] = f,
         l \notin {"copying", "rename"}, pc[c] \in Before,
         l \in Written => output'[out[c]] = f /\ content'[f] = hash[c],
         l = "retrieving" => source'[c] = cache[hash[c]] /\ source'[c] # NoFile
  PROVE  CopyInv'
<1> USE DEF TypeOK, CopyInv, Goto
<1>0. \A d \in Compilers : d # c /\ Running(d) => out[d] # out[c]
  BY DEF ExclusiveOutputs
<1>1. ExclusiveOutputs'
  BY <1>0, StaysExclusive
<1>2. \A o \in Outputs : o # out[c] => output[o] # f /\ output'[o] = output[o]
  <2>1. ASSUME NEW o \in Outputs, output[o] = f PROVE o = out[c]
    <3>1. output[o] # NoFile
      BY <2>1, FileNames, FileKinds
    <3>2. CASE f = output[out[c]]
      BY <2>1, <3>1, <3>2 DEF OwnObjects
    <3>3. CASE f = <<c, "object">> /\ pc[c] \in Fresh
      BY <2>1, <3>3 DEF OwnObjects
    <3>4. QED
      BY <3>2, <3>3
  <2>2. QED
    BY <2>1
<1>3. OwnObjects' /\ OwnTemps'
  <2>1. output'[out[c]] \in {f, NoFile}
    OBVIOUS
  <2>2. \A o \in Outputs : output'[o] \in Objects \cup {NoFile}
    BY <1>2, <2>1 DEF OwnObjects
  <2>3. \A o, p \in Outputs : output'[o] = output'[p] /\ output'[o] # NoFile => o = p
    BY <1>2, <2>1 DEF OwnObjects
  <2>4. ASSUME NEW d \in Compilers, pc'[d] \in Fresh, NEW o \in Outputs
        PROVE  output'[o] # <<d, "object">>
    <3>1. pc[d] \in Fresh
      BY <2>4
    <3>2. CASE o # out[c]
      BY <3>1, <3>2, <1>2 DEF OwnObjects
    <3>3. CASE o = out[c] /\ d = c
      BY <2>4, <3>3, FileNames
    <3>4. CASE o = out[c] /\ d # c
      <4>1. output[out[c]] # <<d, "object">> /\ <<c, "object">> # <<d, "object">>
        BY <3>1, <3>4, FileKinds DEF OwnObjects
      <4>2. NoFile # <<d, "object">>
        BY FileNames
      <4>3. QED
        BY <3>4, <2>1, <4>1, <4>2
    <3>5. QED
      BY <3>2, <3>3, <3>4
  <2>5. QED
    BY <2>2, <2>3, <2>4 DEF OwnObjects, OwnTemps
<1>4. ASSUME NEW d \in Compilers, d # c, Running(d) PROVE output'[out[d]] = output[out[d]]
  BY <1>0, <1>2, <1>4
<1>5. Descriptors'
  <2>1. ASSUME NEW d \in Compilers, d # c, pc[d] \in {"writing", "retrieving", "copying"}
        PROVE  output'[out[d]] = output[out[d]]
    BY <1>4, <2>1 DEF Running
  <2>2. QED
    BY <2>1 DEF Descriptors
<1>6. \A e \in Files : e # f => content'[e] = content[e]
  BY FileKinds
<1>7. Produced'
  <2>1. ASSUME NEW d \in Compilers, d # c, pc[d] \in Written
        PROVE  output'[out[d]] \in Objects /\ content'[output'[out[d]]] = hash[d]
    <3>1. Running(d)
      BY <2>1 DEF Running, Written
    <3>2. output[out[d]] # f /\ output'[out[d]] = output[out[d]]
      BY <1>0, <1>2, <2>1, <3>1
    <3>3. QED
      BY <1>6, <2>1, <3>2, FileKinds DEF Produced
  <2>2. ASSUME l \in Written PROVE output'[out[c]] = f /\ content'[f] = hash[c]
    BY <2>2, FileNames, FileKinds
  <2>3. QED
    BY <2>1, <2>2 DEF Produced
<1>8. TempReady'
  BY <1>6, FileNames, FileKinds DEF TempReady, OwnTemps
<1>9. ASSUME NEW e, Sealed(e) PROVE Sealed(e)' /\ content'[e] = content[e]
  BY <1>6, <1>9, FileKinds DEF Sealed
<1>10. EntriesSealed'
  BY <1>9 DEF EntriesSealed
<1>11. SourceSealed'
  <2> SUFFICES ASSUME NEW d \in Compilers, pc'[d] = "retrieving"
               PROVE  Sealed(source[d])' /\ content'[source'[d]] = hash[d]
    BY DEF SourceSealed
  <2>1. CASE d # c
    <3>1. Sealed(source[d]) /\ content[source[d]] = hash[d] /\ source'[d] = source[d]
      BY <2>1 DEF SourceSealed
    <3>2. QED
      BY <1>9, <3>1 DEF Sealed
  <2>2. CASE d = c
    <3>1. source'[c] = cache[hash[c]] /\ Sealed(cache[hash[c]])
          /\ content[cache[hash[c]]] = hash[c]
      BY <2>2 DEF EntriesSealed
    <3>2. QED
      BY <1>9, <2>2, <3>1 DEF Sealed
  <2>3. QED
    BY <2>1, <2>2
<1>12. QED
  BY <1>1, <1>3, <1>5, <1>7, <1>8, <1>10, <1>11

(* A step of a compiler that stores its object and changes only one of its *)
(* own temporary files, which nobody else can have opened or found in the  *)
(* cache.                                                                  *)
LEMMA TempCopyInv ==
  ASSUME TypeOK, TypeOK', CopyInv, mode = "copy", UNCHANGED <<mode, cache, output, hash, out>>,
         NEW c \in Compilers, pc[c] \in {"cacheObject", "copy", "copying"},
         NEW l \in {"copy", "copying", "rename"}, Goto(c, l),
         NEW f \in {<<c, "temp">>, <<c, "again">>}, NEW x,
         content' = [content EXCEPT ![f] = x],
         \/ temp' = [temp EXCEPT ![c] = f]
         \/ temp' = temp /\ temp[c] \in {NoFile, f},
         \A d \in Compilers : d # c => dest'[d] = dest[d] /\ source'[d] = source[d],
         l = "copying" => dest'[c] = f /\ source'[c] = output[out[c]],
         l = "rename" => x = hash[c]
  PROVE  CopyInv'
<1> USE DEF TypeOK, CopyInv, Goto
<1>1. ExclusiveOutputs'
  <2>1. \A d \in Compilers : d # c /\ Running(d) => out[d] # out[c]
    BY DEF ExclusiveOutputs, Running
  <2>2. QED
    BY <2>1, StaysExclusive
<1>2. OwnObjects'
  BY DEF OwnObjects, Fresh
<1>3. /\ temp'[c] \in {NoFile, f}
      /\ \A d \in Compilers : d # c => temp'[d] = temp[d]
  OBVIOUS
<1>4. OwnTemps' /\ Descriptors'
  BY <1>3 DEF OwnTemps, Descriptors
<1>5. f \in Temps /\ f \in Files /\ \A e \in Files : e # f => content'[e] = content[e]
  <2>1. f \in Temps
    <3>1. <<c, "temp">> \in Temps /\ <<c, "again">> \in Temps
      BY FileKinds
    <3>2. QED
      BY <3>1
  <2>2. f \in Files
    BY <2>1, FileKinds
  <2>3. QED
    BY <2>1, <2>2
<1>6. Produced'
  <2>1. ASSUME NEW d \in Compilers, pc[d] \in Written
        PROVE  output[out[d]] \in Objects /\ content'[output[out[d]]] = hash[d]
    BY <1>5, <2>1, FileKinds DEF Produced
  <2>2. \A d \in Compilers : pc'[d] \in Written => pc[d] \in Written
    BY DEF Written
  <2>3. QED
    BY <2>1, <2>2 DEF Produced
<1>7. TempReady'
  <2> SUFFICES ASSUME NEW d \in Compilers, pc'[d] = "rename", temp'[d] # NoFile
               PROVE  content'[temp'[d]] = hash[d]
    BY DEF TempReady
  <2>1. CASE d = c
    BY <1>3, <1>5, <2>1
  <2>2. CASE d # c
    <3>1. temp[d] \in {<<d, "temp">>, <<d, "again">>} /\ content[temp[d]] = hash[d]
      BY <1>3, <2>2 DEF TempReady, OwnTemps
    <3>2. temp[d] # f /\ temp[d] \in Files
      BY <2>2, <3>1, FileKinds
    <3>3. QED
      BY <1>3, <1>5, <2>2, <3>1, <3>2
  <2>3. QED
    BY <2>1, <2>2
<1>8. ASSUME NEW e, Sealed(e) PROVE Sealed(e)' /\ content'[e] = content[e]
  <2>1. e # f /\ e \in Files
    BY <1>8, FileKinds DEF Sealed, Before, Written
  <2>2. Sealed(e)'
    BY <1>8 DEF Sealed, Before, Written
  <2>3. QED
    BY <1>5, <2>1, <2>2
<1>9. EntriesSealed'
  BY <1>8 DEF EntriesSealed
<1>10. SourceSealed'
  <2> SUFFICES ASSUME NEW d \in Compilers, pc'[d] = "retrieving"
               PROVE  Sealed(source[d])' /\ content'[source'[d]] = hash[d]
    BY DEF SourceSealed
  <2>1. d # c /\ Sealed(source[d]) /\ content[source[d]] = hash[d] /\ source'[d] = source[d]
    BY DEF SourceSealed
  <2>2. QED
    BY <1>8, <2>1 DEF Sealed
<1>11. QED
  BY <1>1, <1>2, <1>4, <1>6, <1>7, <1>9, <1>10

(* The entry appears when its file is complete and will never be written   *)
(* again.                                                                  *)
LEMMA RenameCopyInv ==
  ASSUME TypeOK, TypeOK', CopyInv, mode = "copy", NEW c \in Compilers, rename(c)
  PROVE  CopyInv'
<1> USE DEF TypeOK, CopyInv, Goto
<1>0. \A d \in Compilers : d # c /\ Running(d) => out[d] # out[c]
  BY DEF ExclusiveOutputs, Running, rename
<1>1. CASE temp[c] = NoFile
  <2>1. Goto(c, "failed") /\ UNCHANGED <<mode, files, locals>>
    BY <1>1 DEF rename, Fail, files, locals
  <2>2. QED
    BY <1>0, <2>1, MoveCopyInv DEF Labels, Written, Fresh
<1>2. CASE temp[c] # NoFile
  <2>1. /\ pc[c] = "rename" /\ pc' = [pc EXCEPT ![c] = "prune"]
        /\ cache' = [cache EXCEPT ![hash[c]] = temp[c]]
        /\ temp' = [temp EXCEPT ![c] = NoFile]
        /\ UNCHANGED <<mode, output, content, hash, out, source, dest>>
    BY <1>2 DEF rename
  <2>2. ExclusiveOutputs' /\ OwnObjects' /\ OwnTemps'
    <3>1. ExclusiveOutputs'
      BY <1>0, <2>1, StaysExclusive
    <3>2. OwnObjects' /\ OwnTemps'
      BY <2>1 DEF OwnObjects, OwnTemps, Fresh
    <3>3. QED
      BY <3>1, <3>2
  <2>3. Descriptors' /\ Produced' /\ TempReady'
    BY <2>1 DEF Descriptors, Produced, TempReady, Written
  <2>4. ASSUME NEW e, Sealed(e) PROVE Sealed(e)'
    BY <2>1, <2>4 DEF Sealed, Before, Written, Fresh
  <2>f. PICK f : f = temp[c]
    OBVIOUS
  <2>5. Sealed(f)' /\ content[f] = hash[c]
    <3>1. f \in {<<c, "temp">>, <<c, "again">>} /\ content[f] = hash[c]
      BY <1>2, <2>1, <2>f DEF OwnTemps, TempReady
    <3>2. ASSUME NEW d \in Compilers, pc'[d] \in Before
          PROVE  f \notin {<<d, "temp">>, <<d, "again">>}
      <4>1. d # c
        BY <2>1, <3>2 DEF Before, Fresh, Written
      <4>2. QED
        BY <3>1, <4>1, FileKinds
    <3>3. QED
      BY <3>1, <3>2, FileKinds DEF Sealed
  <2>6. EntriesSealed'
    <3> SUFFICES ASSUME NEW h \in Hashes, cache'[h] # NoFile
                 PROVE  Sealed(cache[h])' /\ content'[cache'[h]] = h
      BY DEF EntriesSealed
    <3>1. CASE h = hash[c]
      BY <2>f, <2>1, <2>5, <3>1 DEF Sealed
    <3>2. CASE h # hash[c]
      BY <2>1, <2>4, <3>2 DEF EntriesSealed, Sealed
    <3>3. QED
      BY <3>1, <3>2
  <2>7. SourceSealed'
    BY <2>1, <2>4 DEF SourceSealed, Sealed
  <2>8. QED
    BY <2>2, <2>3, <2>6, <2>7
<1>3. QED
  BY <1>1, <1>2

(* Every step of every compiler in copy mode is one of these. *)
LEMMA NextCopyInv == IInv /\ TypeOK' /\ [Next]_vars => CopyInv'
<1> SUFFICES ASSUME TypeOK, TypeOK', CopyInv, mode = "copy", [Next]_vars
             PROVE  CopyInv'
  <2>1. [Next]_vars => mode' = mode
    BY DEF Next, Step, vars, writeModule, cacheLookup, OpenOutput, Passes, createUniqueFile,
       OpenTemp, CopyToTemp, rename, remove, copy_file, FinishRetrieval, createHardLink,
       createSymLink, setLastAccessAndModificationTime, hasPruneIntervalPassed, ListEntries,
       pruneForSize, SmallEnough, deleteTemp, pruneForExpiry, RemoveCandidate, Kill
  <2>2. QED
    BY <2>1 DEF IInv, CopyInv
<1> USE DEF files, locals, pruning
<1>x. ASSUME NEW c \in Compilers, Running(c)
      PROVE  \A d \in Compilers : d # c /\ Running(d) => out[d] # out[c]
  BY <1>x DEF CopyInv, ExclusiveOutputs
<1>f. ASSUME NEW c \in Compilers, Running(c), Fail(c), UNCHANGED <<mode, hash, out>>
      PROVE  CopyInv'
  BY <1>x, <1>f, MoveCopyInv DEF Fail, Labels, Written, Fresh
<1>1. ASSUME NEW c \in Compilers, writeModule(c) PROVE CopyInv'
  <2>1. Goto(c, "lookup") /\ UNCHANGED <<mode, files, locals>>
    BY <1>1 DEF writeModule
  <2>2. pc[c] \in Fresh /\ \A d \in Compilers : d # c /\ Running(d) => out[d] # out[c]
    BY <1>1 DEF writeModule, Fresh
  <2>3. QED
    BY <2>1, <2>2, MoveCopyInv DEF Labels, Written
<1>2. ASSUME NEW c \in Compilers, cacheLookup(c) PROVE CopyInv'
  <2>1. PICK l \in {"recover", "codegen"} : Goto(c, l) /\ UNCHANGED <<mode, files, locals>>
    BY <1>2 DEF cacheLookup
  <2>2. pc[c] \in Fresh /\ Running(c)
    BY <1>2 DEF cacheLookup, Fresh, Running
  <2>3. QED
    BY <1>x, <2>1, <2>2, MoveCopyInv DEF Labels, Written
<1>3. ASSUME NEW c \in Compilers, OpenOutput(c) PROVE CopyInv'
  <2>1. Running(c) /\ pc[c] \in Before /\ pc[c] \in Fresh /\ Goto(c, "writing")
    BY <1>3 DEF OpenOutput, Running, Before, Fresh
  <2>2. out[c] \in Outputs /\ output[out[c]] \in Objects \cup {NoFile}
    BY DEF TypeOK, CopyInv, OwnObjects
  <2>3. output[out[c]] \notin Hashes
    BY <2>2, FileKinds, NamesAssumption
  <2>4. PICK f : /\ f = IF output[out[c]] # NoFile THEN output[out[c]] ELSE <<c, "object">>
                 /\ content' = [content EXCEPT ![f] = "partial"]
                 /\ dest' = [dest EXCEPT ![c] = f]
                 /\ output' = [output EXCEPT ![out[c]] = f]
                 /\ UNCHANGED <<mode, cache, temp, hash, out, source>>
    BY <1>3, <2>3 DEF OpenOutput, Truncate, Resolve
  <2>5. f \in Objects
    BY <2>2, <2>4, FileKinds
  <2>6. /\ output'[out[c]] = f /\ \A o \in Outputs : o # out[c] => output'[o] = output[o]
        /\ \A e \in Files : e # f => content'[e] = content[e]
        /\ dest'[c] = f /\ \A d \in Compilers : d # c => dest'[d] = dest[d]
    BY <2>2, <2>4 DEF TypeOK
  <2>7. QED
    BY <2>1, <2>4, <2>5, <2>6, OutputCopyInv DEF Written, Fresh
<1>4. ASSUME NEW c \in Compilers, Passes(c) PROVE CopyInv'
  <2>1. Running(c) /\ pc[c] \in Before /\ Goto(c, "cacheObject")
    BY <1>4 DEF Passes, Running, Before
  <2>2. PICK f \in Objects : f = dest[c] /\ f = output[out[c]]
    BY <1>4 DEF Passes, CopyInv, Descriptors
  <2>3. /\ content'[f] = hash[c] /\ \A e \in Files : e # f => content'[e] = content[e]
        /\ UNCHANGED <<mode, cache, temp, output, hash, out, source, dest>>
    BY <1>4, <2>2, FileKinds DEF Passes, TypeOK
  <2>4. QED
    BY <2>1, <2>2, <2>3, OutputCopyInv DEF Fresh
<1>5. ASSUME NEW c \in Compilers, createUniqueFile(c) PROVE CopyInv'
  <2>1. /\ pc[c] = "cacheObject" /\ Goto(c, "copy")
        /\ temp' = [temp EXCEPT ![c] = <<c, "temp">>]
        /\ content' = [content EXCEPT ![<<c, "temp">>] = "partial"]
        /\ UNCHANGED <<mode, cache, output, hash, out, source, dest>>
    BY <1>5 DEF createUniqueFile
  <2>2. QED
    BY <2>1, TempCopyInv
<1>6. ASSUME NEW c \in Compilers, OpenTemp(c) PROVE CopyInv'
  <2>1. CASE Resolve(out[c]) = NoFile
    BY <1>6, <1>f, <2>1 DEF OpenTemp, Running
  <2>2. CASE Resolve(out[c]) # NoFile
    <3>1. pc[c] = "copy" /\ Goto(c, "copying")
      BY <1>6, <2>2 DEF OpenTemp
    <3>2. output[out[c]] \in Objects
      BY <3>1 DEF CopyInv, Produced, Written
    <3>3. Resolve(out[c]) = output[out[c]]
      BY <3>2, FileKinds, NamesAssumption DEF Resolve
    <3>4. PICK f \in {<<c, "temp">>, <<c, "again">>} :
                 /\ content' = [content EXCEPT ![f] = "partial"]
                 /\ dest' = [dest EXCEPT ![c] = f]
                 /\ temp' = [temp EXCEPT ![c] = f]
      BY <1>6, <2>2 DEF OpenTemp, Truncate, CopyInv, OwnTemps
    <3>5. /\ source' = [source EXCEPT ![c] = output[out[c]]]
          /\ UNCHANGED <<mode, cache, output, hash, out>>
      BY <1>6, <2>2, <3>3 DEF OpenTemp
    <3>6. /\ dest'[c] = f /\ source'[c] = output[out[c]]
          /\ \A d \in Compilers : d # c => dest'[d] = dest[d] /\ source'[d] = source[d]
      BY <3>4, <3>5 DEF TypeOK
    <3>7. QED
      BY <3>1, <3>4, <3>5, <3>6, TempCopyInv
  <2>3. QED
    BY <2>1, <2>2
<1>7. ASSUME NEW c \in Compilers, CopyToTemp(c) PROVE CopyInv'
  <2>1. pc[c] = "copying" /\ Goto(c, "rename")
    BY <1>7 DEF CopyToTemp
  <2>2. content[source[c]] = hash[c]
    BY <2>1 DEF CopyInv, Descriptors, Produced, Written
  <2>3. PICK f \in {<<c, "temp">>, <<c, "again">>} : f = dest[c] /\ temp[c] \in {NoFile, f}
    BY <2>1 DEF CopyInv, Descriptors
  <2>4. /\ content' = [content EXCEPT ![f] = hash[c]]
        /\ UNCHANGED <<mode, cache, temp, output, hash, out, source, dest>>
    BY <1>7, <2>2, <2>3 DEF CopyToTemp, FinishCopy
  <2>5. QED
    BY <2>1, <2>3, <2>4, TempCopyInv
<1>8. ASSUME NEW c \in Compilers, rename(c) PROVE CopyInv'
  BY <1>8, RenameCopyInv
<1>9. ASSUME NEW c \in Compilers, remove(c) PROVE CopyInv'
  <2>1. /\ Running(c) /\ pc[c] \in Before /\ pc[c] \in Fresh /\ Goto(c, "retrieve")
        /\ output' = [output EXCEPT ![out[c]] = NoFile]
        /\ UNCHANGED <<mode, cache, temp, content, hash, out, source, dest>>
    BY <1>9 DEF remove, Running, Before, Fresh
  <2>2. output'[out[c]] = NoFile /\ \A o \in Outputs : o # out[c] => output'[o] = output[o]
    BY <2>1 DEF TypeOK
  <2>3. <<c, "object">> \in Objects
    BY FileKinds
  <2>4. QED
    BY <2>1, <2>2, <2>3, OutputCopyInv DEF Written
<1>10. ASSUME NEW c \in Compilers, copy_file(c) PROVE CopyInv'
  <2>1. CASE cache[hash[c]] = NoFile
    BY <1>10, <1>f, <2>1 DEF copy_file, Running
  <2>2. CASE cache[hash[c]] # NoFile
    <3>1. Running(c) /\ pc[c] \in Before /\ pc[c] \in Fresh /\ Goto(c, "retrieving")
      BY <1>10, <2>2 DEF copy_file, Running, Before, Fresh
    <3>2. PICK f \in Objects : f = <<c, "object">>
      BY FileKinds
    <3>3. /\ content' = [content EXCEPT ![f] = "partial"]
          /\ dest' = [dest EXCEPT ![c] = f]
          /\ output' = [output EXCEPT ![out[c]] = f]
          /\ source' = [source EXCEPT ![c] = cache[hash[c]]]
          /\ UNCHANGED <<mode, cache, temp, hash, out>>
      BY <1>10, <2>2, <3>2 DEF copy_file, Truncate
    <3>4. /\ output'[out[c]] = f /\ \A o \in Outputs : o # out[c] => output'[o] = output[o]
          /\ \A e \in Files : e # f => content'[e] = content[e]
          /\ dest'[c] = f /\ source'[c] = cache[hash[c]]
          /\ \A d \in Compilers : d # c => dest'[d] = dest[d] /\ source'[d] = source[d]
      BY <3>3 DEF TypeOK
    <3>5. QED
      BY <2>2, <3>1, <3>2, <3>3, <3>4, OutputCopyInv DEF Written, Fresh
  <2>3. QED
    BY <2>1, <2>2
<1>11. ASSUME NEW c \in Compilers, FinishRetrieval(c) PROVE CopyInv'
  <2>1. Running(c) /\ pc[c] \in Before /\ Goto(c, "touch")
    BY <1>11 DEF FinishRetrieval, Running, Before
  <2>2. PICK f \in Objects : f = dest[c] /\ f = output[out[c]]
    BY <1>11 DEF FinishRetrieval, CopyInv, Descriptors
  <2>3. content[source[c]] = hash[c]
    BY <1>11 DEF FinishRetrieval, CopyInv, SourceSealed
  <2>4. /\ content'[f] = hash[c] /\ \A e \in Files : e # f => content'[e] = content[e]
        /\ UNCHANGED <<mode, cache, temp, output, hash, out, source, dest>>
    BY <1>11, <2>2, <2>3, FileKinds DEF FinishRetrieval, FinishCopy, TypeOK
  <2>5. QED
    BY <2>1, <2>2, <2>4, OutputCopyInv DEF Fresh
<1>12. ASSUME NEW c \in Compilers, createHardLink(c) \/ createSymLink(c) PROVE CopyInv'
  BY <1>12 DEF createHardLink, createSymLink
<1>13. ASSUME NEW c \in Compilers,
              \/ setLastAccessAndModificationTime(c) \/ hasPruneIntervalPassed(c)
              \/ ListEntries(c) \/ pruneForSize(c) \/ SmallEnough(c) \/ Kill(c)
       PROVE  CopyInv'
  <2>1. PICK l \in {"failed", "prune", "done", "deleteTemps", "expire", "shrink", "killed"} :
               Goto(c, l) /\ UNCHANGED <<mode, files, locals>>
    BY <1>13 DEF setLastAccessAndModificationTime, hasPruneIntervalPassed, ListEntries,
                 pruneForSize, SmallEnough, Kill, Fail
  <2>2. Running(c)
    BY <1>13 DEF setLastAccessAndModificationTime, hasPruneIntervalPassed, ListEntries,
                 pruneForSize, SmallEnough, Kill, Running
  <2>3. QED
    BY <1>x, <2>1, <2>2, MoveCopyInv DEF Labels, Written, Fresh
<1>14. ASSUME NEW c \in Compilers, NEW d \in Compilers, deleteTemp(c, d) PROVE CopyInv'
  <2>1. /\ \A e \in Compilers : temp'[e] \in {temp[e], NoFile}
        /\ UNCHANGED <<mode, cache, output, content, pc, locals>>
    BY <1>14 DEF deleteTemp, TypeOK
  <2>2. QED
    BY <2>1, PruneCopyInv
<1>15. ASSUME NEW c \in Compilers, NEW h \in Hashes,
              pruneForExpiry(c, h) \/ RemoveCandidate(c, h)
       PROVE  CopyInv'
  <2>1. CASE pruneForExpiry(c, h) /\ cache[h] = NoFile
    BY <1>f, <2>1 DEF pruneForExpiry, Running
  <2>2. CASE ~(pruneForExpiry(c, h) /\ cache[h] = NoFile)
    <3>1. /\ \A k \in Hashes : cache'[k] \in {cache[k], NoFile}
          /\ UNCHANGED <<mode, temp, output, content, pc, locals>>
      BY <1>15, <2>2 DEF pruneForExpiry, RemoveCandidate, TypeOK
    <3>2. QED
      BY <3>1, PruneCopyInv
  <2>3. QED
    BY <2>1, <2>2
<1>16. CASE UNCHANGED vars
  BY <1>16, PruneCopyInv DEF vars
<1>17. QED
  BY <1>1, <1>2, <1>3, <1>4, <1>5, <1>6, <1>7, <1>8, <1>9, <1>10, <1>11, <1>12, <1>13,
     <1>14, <1>15, <1>16 DEF Next, Step

(* The inductive invariant. *)
LEMMA IInvHolds == Spec => []IInv
<1>1. Init => IInv
  BY InitTypeOK, InitCopyInv DEF IInv
<1>2. IInv /\ [Next]_vars => IInv'
  BY NextTypeOK, NextCopyInv DEF IInv
<1>3. QED
  BY <1>1, <1>2, PTL DEF Spec

(* In copy mode no entry is ever partial or of another module, however     *)
(* many compilers write, recover, prune or die at the same time.           *)
THEOREM CopiedEntriesGoodHolds == Spec => []CopiedEntriesGood
<1>1. IInv => CopiedEntriesGood
  BY DEF IInv, CopyInv, EntriesSealed, CopiedEntriesGood, EntriesGood
<1>2. QED
  BY <1>1, IInvHolds, PTL

(* In copy mode a compiler that gets to the end of writeModule has its own *)
(* object code in its output: the last step before finds it there          *)
(* (Produced), and no other compiler can have touched it.                  *)
THEOREM OutputCorrectHolds == Spec => OutputCorrect
<1> DEFINE Correct == \A c \in Compilers :
                        (mode = "copy" /\ pc[c] # "prune" /\ pc'[c] = "prune") =>
                          output'[out[c]] \in Files /\ content'[output'[out[c]]] = hash[c]
<1>1. IInv /\ [Next]_vars => [Correct]_vars
  <2> SUFFICES ASSUME IInv, Next, NEW c \in Compilers,
                      mode = "copy", pc[c] # "prune", pc'[c] = "prune"
               PROVE  output'[out[c]] \in Files /\ content'[output'[out[c]]] = hash[c]
    OBVIOUS
  <2>0. TypeOK /\ CopyInv
    BY DEF IInv
  <2>1. rename(c) \/ setLastAccessAndModificationTime(c)
    <3>1. PICK d \in Compilers : Step(d)
      BY DEF Next
    <3>2. QED
      BY <2>0, <3>1 DEF TypeOK, Step, writeModule, cacheLookup, OpenOutput, Passes,
         createUniqueFile, OpenTemp, CopyToTemp, remove, copy_file, FinishRetrieval, rename,
         createHardLink, createSymLink, setLastAccessAndModificationTime,
         hasPruneIntervalPassed, ListEntries, pruneForSize, SmallEnough, deleteTemp,
         pruneForExpiry, RemoveCandidate, Kill, Fail, Goto
  <2>2. UNCHANGED <<output, content>> /\ pc[c] \in Written
    BY <2>1 DEF rename, setLastAccessAndModificationTime, Fail, files, Written
  <2>3. QED
    BY <2>0, <2>2, FileKinds DEF CopyInv, Produced
<1>2. QED
  BY <1>1, IInvHolds, PTL DEF OutputCorrect, Spec

-----------------------------------------------------------------------------
(* In every mode, as long as nothing has been pruned. *)

\* It has found its entry in the cache or has put it there.
Found == {"recover", "retrieve", "retrieving", "touch", "prune", "deleteTemps", "expire",
          "shrink", "done"}

(* Nothing that a compiler has seen or made is missing: its entry, its     *)
(* temporary file, what its output leads to, and the entries it has listed.*)
HasFiles(c) ==
  /\ pc[c] # "failed"
  /\ pc[c] \in Found => cache[hash[c]] # NoFile
  /\ pc[c] \in {"copy", "copying", "rename"} => temp[c] # NoFile
  /\ pc[c] \in {"writing", "cacheObject", "copy"} => Resolve(out[c]) # NoFile
  /\ pc[c] = "deleteTemps" => \A h \in Hashes : h \in opened[c] => cache[h] # NoFile
  /\ pc[c] = "expire" => \A h \in Hashes : h \in listed[c] => cache[h] # NoFile

UnprunedInv == ExclusiveOutputs /\ (~pruned => \A c \in Compilers : HasFiles(c))

(* A compiler starts only when nobody writes to its output. *)
LEMMA NextExclusive == TypeOK /\ ExclusiveOutputs /\ [Next]_vars => ExclusiveOutputs'
<1> SUFFICES ASSUME TypeOK, ExclusiveOutputs, [Next]_vars PROVE ExclusiveOutputs'
  OBVIOUS
<1>1. CASE UNCHANGED <<pc, out>>
  BY <1>1 DEF ExclusiveOutputs, Running
<1>2. CASE ~UNCHANGED <<pc, out>>
  <2>0. [Next]_vars => UNCHANGED vars \/ \E c \in Compilers : Step(c)
    BY DEF Next
  <2>1. PICK c \in Compilers : Step(c)
    BY <1>2, <2>0 DEF vars, locals
  <2>2. out' = out
    BY <2>1 DEF Step, writeModule, cacheLookup, OpenOutput, Passes, createUniqueFile,
       OpenTemp, CopyToTemp, rename, remove, copy_file, FinishRetrieval, createHardLink,
       createSymLink, setLastAccessAndModificationTime, hasPruneIntervalPassed, ListEntries,
       pruneForSize, SmallEnough, deleteTemp, pruneForExpiry, RemoveCandidate, Kill, locals
  <2>3. \E l : Goto(c, l)
    BY <1>2, <2>1, <2>2 DEF Step, writeModule, cacheLookup, OpenOutput, Passes,
       createUniqueFile, OpenTemp, CopyToTemp, rename, remove, copy_file, FinishRetrieval,
       createHardLink, createSymLink, setLastAccessAndModificationTime,
       hasPruneIntervalPassed, ListEntries, pruneForSize, SmallEnough, deleteTemp,
       pruneForExpiry, RemoveCandidate, Kill, Fail
  <2>4. Running(c) \/ writeModule(c)
    BY <2>1 DEF Step, cacheLookup, OpenOutput, Passes, createUniqueFile,
       OpenTemp, CopyToTemp, rename, remove, copy_file, FinishRetrieval, createHardLink,
       createSymLink, setLastAccessAndModificationTime, hasPruneIntervalPassed, ListEntries,
       pruneForSize, SmallEnough, deleteTemp, pruneForExpiry, RemoveCandidate, Kill, Running
  <2>5. \A d \in Compilers : d # c /\ Running(d) => out[d] # out[c]
    BY <2>4 DEF ExclusiveOutputs, writeModule
  <2>6. QED
    BY <2>2, <2>3, <2>5, StaysExclusive
<1>3. QED
  BY <1>1, <1>2

(* A step of compiler c that takes no file from the directory leaves the   *)
(* others what they have seen and made.                                    *)
LEMMA OthersHaveFiles ==
  ASSUME TypeOK, ExclusiveOutputs, NEW c \in Compilers, NEW d \in Compilers \ {c},
         HasFiles(d), UNCHANGED <<hash, out>>,
         \A h \in Hashes : cache[h] # NoFile => cache'[h] # NoFile,
         temp[d] # NoFile => temp'[d] # NoFile,
         pc'[d] = pc[d], opened'[d] = opened[d], listed'[d] = listed[d],
         Running(c) \/ UNCHANGED output,
         \A o \in Outputs : o # out[c] => output'[o] = output[o]
  PROVE  HasFiles(d)'
<1>1. ASSUME pc[d] \in {"writing", "cacheObject", "copy"} PROVE Resolve(out[d])' # NoFile
  <2>1. Running(d) /\ Resolve(out[d]) # NoFile
    BY <1>1 DEF Running, HasFiles
  <2>2. output'[out[d]] = output[out[d]]
    BY <2>1 DEF ExclusiveOutputs, TypeOK
  <2>3. QED
    BY <2>1, <2>2 DEF Resolve
<1>2. QED
  BY <1>1 DEF HasFiles, TypeOK

(* Every call of the file system, unless it prunes, leaves everybody their *)
(* files and gives its own compiler what it counts on next; and no call    *)
(* fails.                                                                  *)
LEMMA NextHasFiles ==
  ASSUME TypeOK, ExclusiveOutputs, \A d \in Compilers : HasFiles(d),
         NEW c \in Compilers, Step(c), ~pruned'
  PROVE  \A d \in Compilers : HasFiles(d)'
<1> DEFINE Others ==
      /\ UNCHANGED <<hash, out>>
      /\ \A h \in Hashes : cache[h] # NoFile => cache'[h] # NoFile
      /\ \A d \in Compilers \ {c} : temp[d] # NoFile => temp'[d] # NoFile
      /\ \A d \in Compilers \ {c} : /\ pc'[d] = pc[d]
                                     /\ opened'[d] = opened[d] /\ listed'[d] = listed[d]
      /\ Running(c) \/ UNCHANGED output
      /\ \A o \in Outputs : o # out[c] => output'[o] = output[o]
<1> USE DEF files, locals, pruning, Goto, Found
<1>0. HasFiles(c) /\ hash[c] \in Hashes /\ out[c] \in Outputs
  BY DEF TypeOK
<1>f. NoFile \notin Hashes /\ <<c, "object">> # NoFile /\ <<c, "temp">> # NoFile
      /\ <<c, "again">> # NoFile
  BY FileNames, NamesAssumption
<1>1. CASE writeModule(c) \/ cacheLookup(c) \/ remove(c) \/ Kill(c)
  <2>1. Others
    BY <1>1 DEF TypeOK, writeModule, cacheLookup, remove, Kill, Running
  <2>2. HasFiles(c)'
    BY <1>0, <1>1 DEF TypeOK, HasFiles, writeModule, cacheLookup, remove, Kill
  <2>3. QED
    BY <2>1, <2>2, OthersHaveFiles
<1>2. CASE OpenOutput(c)
  <2>1. pc[c] = "codegen" /\ pc' = [pc EXCEPT ![c] = "writing"]
        /\ UNCHANGED <<temp, hash, out, opened, listed>>
    BY <1>2 DEF OpenOutput
  <2>2. PICK f \in Files : IF output[out[c]] \in Hashes
                THEN cache' = [cache EXCEPT ![output[out[c]]] = f] /\ UNCHANGED output
                ELSE output' = [output EXCEPT ![out[c]] = f] /\ UNCHANGED cache
    BY <1>0, <1>2, FileNames DEF OpenOutput, Resolve, TypeOK
  <2>3. Others
    BY <1>0, <2>1, <2>2, FileNames DEF TypeOK, Running
  <2>4. Resolve(out[c])' # NoFile
    BY <1>0, <2>1, <2>2, FileNames, NamesAssumption DEF TypeOK, Resolve
  <2>5. HasFiles(c)'
    BY <2>1, <2>4 DEF HasFiles, TypeOK
  <2>6. QED
    BY <2>3, <2>5, OthersHaveFiles
<1>3. CASE Passes(c) \/ CopyToTemp(c) \/ FinishRetrieval(c)
  <2>1. /\ UNCHANGED <<cache, temp, output, hash, out, opened, listed>>
        /\ \/ pc[c] = "writing" /\ pc' = [pc EXCEPT ![c] = "cacheObject"]
           \/ pc[c] = "copying" /\ pc' = [pc EXCEPT ![c] = "rename"]
           \/ pc[c] = "retrieving" /\ pc' = [pc EXCEPT ![c] = "touch"]
    BY <1>3 DEF Passes, CopyToTemp, FinishRetrieval
  <2>2. Others
    BY <2>1 DEF TypeOK
  <2>3. HasFiles(c)'
    BY <1>0, <2>1 DEF TypeOK, HasFiles, Resolve
  <2>4. QED
    BY <2>2, <2>3, OthersHaveFiles
<1>4. CASE createUniqueFile(c) \/ OpenTemp(c)
  <2>1. PICK f \in Files : temp' = [temp EXCEPT ![c] = f]
    BY <1>0, <1>4, FileNames DEF createUniqueFile, OpenTemp, HasFiles, TypeOK
  <2>2. /\ UNCHANGED <<cache, output, hash, out, opened, listed>>
        /\ \/ pc[c] = "cacheObject" /\ pc' = [pc EXCEPT ![c] = "copy"]
           \/ pc[c] = "copy" /\ pc' = [pc EXCEPT ![c] = "copying"]
    BY <1>0, <1>4 DEF createUniqueFile, OpenTemp, HasFiles
  <2>3. Others
    BY <2>1, <2>2 DEF TypeOK
  <2>4. HasFiles(c)'
    BY <1>0, <2>1, <2>2, FileNames DEF TypeOK, HasFiles, Resolve
  <2>5. QED
    BY <2>3, <2>4, OthersHaveFiles
<1>5. CASE rename(c)
  <2>1. /\ pc[c] = "rename" /\ temp[c] # NoFile
        /\ cache' = [cache EXCEPT ![hash[c]] = temp[c]]
        /\ temp' = [temp EXCEPT ![c] = NoFile]
        /\ pc' = [pc EXCEPT ![c] = "prune"]
        /\ UNCHANGED <<output, hash, out, opened, listed>>
    BY <1>0, <1>5 DEF rename, HasFiles
  <2>2. Others
    BY <2>1 DEF TypeOK
  <2>3. HasFiles(c)'
    BY <1>0, <2>1 DEF TypeOK, HasFiles
  <2>4. QED
    BY <2>2, <2>3, OthersHaveFiles
<1>6. CASE \/ copy_file(c) \/ createHardLink(c) \/ createSymLink(c)
           \/ setLastAccessAndModificationTime(c)
  <2>1. /\ pc[c] \in {"retrieve", "touch"} /\ cache[hash[c]] # NoFile
        /\ UNCHANGED <<cache, temp, hash, out, opened, listed>>
        /\ \A o \in Outputs : o # out[c] => output'[o] = output[o]
        /\ \E l \in {"retrieving", "touch", "prune"} : pc' = [pc EXCEPT ![c] = l]
    BY <1>0, <1>6 DEF HasFiles, TypeOK, copy_file, createHardLink, createSymLink,
                      setLastAccessAndModificationTime
  <2>2. Others
    BY <2>1 DEF TypeOK, Running
  <2>3. HasFiles(c)'
    BY <1>0, <2>1 DEF TypeOK, HasFiles
  <2>4. QED
    BY <2>2, <2>3, OthersHaveFiles
<1>7. CASE hasPruneIntervalPassed(c) \/ ListEntries(c) \/ pruneForSize(c) \/ SmallEnough(c)
  <2>1. /\ pc[c] \in Found
        /\ UNCHANGED <<cache, temp, output, hash, out>>
        /\ \A d \in Compilers \ {c} : opened'[d] = opened[d] /\ listed'[d] = listed[d]
        /\ \/ \E l \in {"done", "shrink"} : pc' = [pc EXCEPT ![c] = l]
           \/ pc' = [pc EXCEPT ![c] = "deleteTemps"] /\ opened'[c] = Listing(cache)
           \/ /\ pc[c] = "deleteTemps" /\ pc' = [pc EXCEPT ![c] = "expire"]
              /\ listed'[c] \subseteq opened[c] \cup Listing(cache)
    BY <1>7 DEF TypeOK, hasPruneIntervalPassed, ListEntries, pruneForSize, SmallEnough
  <2>2. Others
    BY <2>1 DEF TypeOK
  <2>3. \A h \in Hashes : h \in Listing(cache) => cache[h] # NoFile
    BY DEF Listing
  <2>4. HasFiles(c)'
    BY <1>0, <2>1, <2>3 DEF TypeOK, HasFiles
  <2>5. QED
    BY <2>2, <2>4, OthersHaveFiles
<1>8. ASSUME NEW d \in Compilers, deleteTemp(c, d) PROVE \A e \in Compilers : HasFiles(e)'
  <2>1. temp[d] = NoFile /\ temp' = [temp EXCEPT ![d] = NoFile]
    BY <1>8 DEF deleteTemp
  <2>2. temp' = temp
    BY <2>1 DEF TypeOK
  <2>3. Others
    BY <1>8, <2>2 DEF TypeOK, deleteTemp
  <2>4. HasFiles(c)'
    BY <1>0, <1>8, <2>2 DEF TypeOK, HasFiles, Resolve, deleteTemp
  <2>5. QED
    BY <2>3, <2>4, OthersHaveFiles
<1>9. ASSUME NEW h \in Hashes, pruneForExpiry(c, h) PROVE \A e \in Compilers : HasFiles(e)'
  <2>1. cache[h] # NoFile
    BY <1>0, <1>9 DEF HasFiles, pruneForExpiry
  <2>2. /\ pc[c] = "expire" /\ UNCHANGED <<cache, temp, output, pc, hash, out>>
        /\ listed' = [listed EXCEPT ![c] = @ \ {h}] /\ UNCHANGED opened
    BY <1>9, <2>1 DEF pruneForExpiry
  <2>3. Others
    BY <2>2 DEF TypeOK
  <2>4. HasFiles(c)'
    BY <1>0, <2>2 DEF TypeOK, HasFiles
  <2>5. QED
    BY <2>3, <2>4, OthersHaveFiles
<1>10. ASSUME NEW h \in Hashes, RemoveCandidate(c, h) PROVE \A e \in Compilers : HasFiles(e)'
  <2>1. cache[h] = NoFile /\ cache' = [cache EXCEPT ![h] = NoFile]
    BY <1>10 DEF RemoveCandidate
  <2>2. cache' = cache
    BY <2>1 DEF TypeOK
  <2>3. Others
    BY <1>10, <2>2 DEF TypeOK, RemoveCandidate
  <2>4. HasFiles(c)'
    BY <1>0, <1>10, <2>2 DEF TypeOK, HasFiles, Resolve, RemoveCandidate
  <2>5. QED
    BY <2>3, <2>4, OthersHaveFiles
<1>11. QED
  BY <1>1, <1>2, <1>3, <1>4, <1>5, <1>6, <1>7, <1>8, <1>9, <1>10 DEF Step

(* The inductive invariant of every mode. *)
LEMMA UnprunedInvHolds == Spec => []UnprunedInv
<1>1. Init => UnprunedInv
  BY DEF Init, UnprunedInv, ExclusiveOutputs, Running, HasFiles, Found
<1>2. TypeOK /\ UnprunedInv /\ [Next]_vars => UnprunedInv'
  <2> SUFFICES ASSUME TypeOK, UnprunedInv, [Next]_vars, ~pruned'
               PROVE  \A c \in Compilers : HasFiles(c)'
    BY NextExclusive DEF UnprunedInv
  <2>1. CASE UNCHANGED vars
    BY <2>1 DEF vars, files, locals, pruning, UnprunedInv, HasFiles, Resolve
  <2>2. CASE Next
    <3>1. PICK c \in Compilers : Step(c)
      BY <2>2 DEF Next
    <3>2. ~pruned
      BY <3>1 DEF Step, writeModule, cacheLookup, OpenOutput, Passes, createUniqueFile,
         OpenTemp, CopyToTemp, rename, remove, copy_file, FinishRetrieval, createHardLink,
         createSymLink, setLastAccessAndModificationTime, hasPruneIntervalPassed,
         ListEntries, pruneForSize, SmallEnough, deleteTemp, pruneForExpiry,
         RemoveCandidate, Kill, pruning
    <3>3. QED
      BY <3>1, <3>2, NextHasFiles DEF UnprunedInv
  <2>3. QED
    BY <2>1, <2>2
<1>3. QED
  BY <1>1, <1>2, TypeOKHolds, PTL DEF Spec

(* In every mode the entry of a compiler that has finished stays in the    *)
(* cache until somebody prunes: no compiler that writes, recovers or dies  *)
(* takes an entry away.                                                    *)
THEOREM FinishedIsCachedHolds == Spec => []FinishedIsCached
<1>1. UnprunedInv => FinishedIsCached
  BY DEF UnprunedInv, HasFiles, Found, FinishedIsCached
<1>2. QED
  BY <1>1, UnprunedInvHolds, PTL

(* In every mode no call of the file system fails before something has     *)
(* been pruned, whatever the other compilers do and wherever they die.     *)
THEOREM FailsOnlyByPruningHolds == Spec => []FailsOnlyByPruning
<1>1. UnprunedInv => FailsOnlyByPruning
  BY DEF UnprunedInv, HasFiles, FailsOnlyByPruning
<1>2. QED
  BY <1>1, UnprunedInvHolds, PTL
=============================================================================
