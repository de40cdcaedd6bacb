--------------------------- MODULE CleanupScopes ---------------------------
(***************************************************************************)
(* How the LLVM based compiler generates the control flow of try/finally,  *)
(* try/catch, destructors of temporaries and the jumps out of them:        *)
(* TryCatchFinallyScopes and CleanupScope of ldc/gen/trycatchfinally.cpp,  *)
(* JumpTargets of ldc/gen/funcgenstate.cpp and the statement visitors that *)
(* drive them.  The exception model is that of landing pads; the copying   *)
(* variant for MSVC is not modelled.                                       *)
(*                                                                         *)
(* A behaviour of this specification is the compilation of one function    *)
(* body, statement by statement.  Each cleanup is emitted once; a branch   *)
(* selector variable, stored by whoever enters the cleanup and read at its *)
(* end, decides where to go on.  The properties run the generated code.    *)
(* Conditions are left out: a loop body or a switch is skipped or entered. *)
(***************************************************************************)
EXTENDS Naturals, Sequences, SequencesExt

CONSTANTS
  Labels,      \* the labels of the function
  Caught,      \* the classes that occur in catches
  MaxScopes,   \* bound: compound statements, expressions and temporaries
  MaxSimple    \* bound: calls, jumps and labels

ASSUME BoundAssumption ==
  /\ Caught \subseteq {"Exception", "Error", "Throwable"}
  /\ MaxScopes \in Nat /\ MaxSimple \in Nat

VARIABLES
  gen,         \* the TryCatchFinallyScopes object and the code emitted so far
  frames,      \* the statements whose visitors are active, outermost first
  labels,      \* labelTargets: the labels seen so far
  targets,     \* breakTargets and continueTargets
  retBlock,    \* the shared return block, or none
  used,        \* how much of the two bounds is used up
  done,        \* "no", "ok" or "error": whether the function is complete
  nest,        \* history: the cleanups and catches around the insertion point
  sites        \* history: every point where control leaves a scope

vars == <<gen, frames, labels, targets, retBlock, used, done, nest, sites>>

None == 0

(* The classes of what is thrown, and whether a catch of class c takes it. *)
Classes == {"Exception", "Error"}
Catches(c, cls) == c \in {cls, "Throwable"}

-----------------------------------------------------------------------------
(* The intermediate code.  Blocks are numbered; op is the terminator of a  *)
(* block, to its successors, cls the class a landing pad compares with,    *)
(* sel the cleanup whose selector a switch reads, stores the values stored *)
(* into selectors, clauses and cleanup the landingpad instruction.         *)

EmptyBlock == [op |-> "none", to |-> <<>>, cls |-> "none", sel |-> None,
               stores |-> {}, clauses |-> <<>>, cleanup |-> FALSE]

insertBB(g) == [g EXCEPT !.ir = Append(@, EmptyBlock)]

NewBlock(g) == Len(g.ir) + 1

Terminate(g, b, op, to) == [g EXCEPT !.ir[b].op = op, !.ir[b].to = to]

CreateBr(g, to) == Terminate(g, g.cur, "br", <<to>>)

SetInsertPoint(g, b) == [g EXCEPT !.cur = b]

Store(g, b, selector, value) ==
  [g EXCEPT !.ir[b].stores = @ \cup {<<selector, value>>}]

(* BasicBlock::replaceAllUsesWith: every branch to old goes to new. *)
replaceAllUsesWith(g, old, new) ==
  [g EXCEPT !.ir = FoldLeft(LAMBDA ir, b : Append(ir, [b EXCEPT !.to = ReplaceAll(@, old, new)]),
                            <<>>, @)]

currentCleanupScope(g) == Len(g.cleanupScopes)

-----------------------------------------------------------------------------
(* CleanupScope::run: make cleanup i continue with a block when it was     *)
(* entered from source.                                                    *)

AddExit(g, i, source, continueWith) ==
  [g EXCEPT !.cleanupScopes[i].exitTargets =
     Append(@, [branchTarget |-> continueWith, sourceBlocks |-> <<source>>])]

AddSource(g, i, k, source) ==
  [g EXCEPT !.cleanupScopes[i].exitTargets[k].sourceBlocks = Append(@, source)]

FirstExit(g, i, source, continueWith) ==
  AddExit(Terminate(g, g.cleanupScopes[i].endBlock, "br", <<continueWith>>),
          i, source, continueWith)

(* The branch at the end becomes a switch, and the sources of the only     *)
(* exit so far store 0.                                                    *)
createBranchSelector(g, i) ==
  LET s  == g.cleanupScopes[i]
      ex == s.exitTargets[1]
      g1 == FoldLeft(LAMBDA h, b : Store(h, b, s.beginBlock, 0), g, ex.sourceBlocks)
  IN  [g1 EXCEPT !.cleanupScopes[i].branchSelector = TRUE,
                 !.ir[s.endBlock].op = "switch",
                 !.ir[s.endBlock].sel = s.beginBlock]

SelectExit(g, i, source, continueWith) ==
  LET s     == g.cleanupScopes[i]
      n     == Len(s.exitTargets)
      known == {k \in 1..n : s.exitTargets[k].branchTarget = continueWith}
  IN  IF known # {}
      THEN LET k == CHOOSE k \in known : \A j \in known : k <= j
           IN  AddSource(Store(g, source, s.beginBlock, k - 1), i, k, source)
      ELSE LET g1 == [g EXCEPT !.ir[s.endBlock].to = Append(@, continueWith)]
           IN  AddExit(Store(g1, source, s.beginBlock, n), i, source, continueWith)

run(g, i, source, continueWith) ==
  LET s == g.cleanupScopes[i]
  IN  IF s.exitTargets = <<>>
      THEN FirstExit(g, i, source, continueWith)
      ELSE IF /\ Len(s.exitTargets) = 1
              /\ s.exitTargets[1].branchTarget = continueWith
      THEN AddSource(g, i, 1, source)
      ELSE SelectExit(IF s.branchSelector THEN g ELSE createBranchSelector(g, i),
                      i, source, continueWith)

-----------------------------------------------------------------------------
(* TryCatchFinallyScopes *)

pushCleanup(g, begin, end) ==
  [g EXCEPT
    !.cleanupScopes = Append(@, [beginBlock |-> begin, endBlock |-> end,
                                 exitTargets |-> <<>>, branchSelector |-> FALSE]),
    !.unresolvedGotos = Append(@, <<>>),
    !.landingPads = Append(@, <<>>)]

runCleanups(g, sourceScope, targetScope, continueWith) ==
  LET next(i) == IF i - 1 > targetScope THEN g.cleanupScopes[i - 1].beginBlock
                 ELSE continueWith
      first == CreateBr(g, g.cleanupScopes[sourceScope].beginBlock)
      f[k \in 0..sourceScope] ==
        IF k = 0 THEN first
        ELSE LET i == sourceScope - k + 1 IN run(f[k - 1], i, g.cur, next(i))
  IN  IF targetScope = sourceScope THEN CreateBr(g, continueWith)
      ELSE f[sourceScope - targetScope]

\* Mutant: without the placeholder the new exit is replaced, too.
LeaveByGotoNoPlaceholder(g, i, jump) ==
  replaceAllUsesWith(run(g, i, jump.sourceBlock, jump.tentativeTarget),
                     jump.tentativeTarget, g.cleanupScopes[i].beginBlock)

(* An unresolved goto leaves the cleanup that is popped: its branch now    *)
(* enters the cleanup, which continues with the tentative target.          *)
LeaveByGoto(g, i, jump) ==
  run(replaceAllUsesWith(g, jump.tentativeTarget, g.cleanupScopes[i].beginBlock),
      i, jump.sourceBlock, jump.tentativeTarget)

popCleanup(g) ==
  LET i     == currentCleanupScope(g)
      gotos == Last(g.unresolvedGotos)
      g1    == FoldLeft(LAMBDA h, jump : LeaveByGoto(h, i, jump), g, gotos)
  IN  [g1 EXCEPT
        !.cleanupScopes = Front(@),
        !.unresolvedGotos = [Front(@) EXCEPT ![i] = @ \o gotos],
        !.landingPads = Front(@)]

popCleanups(g, targetScope) ==
  LET f[k \in 0..currentCleanupScope(g)] ==
        IF k = 0 THEN g ELSE popCleanup(f[k - 1])
  IN  f[currentCleanupScope(g) - targetScope]

registerUnresolvedGoto(g, label) ==
  LET t == NewBlock(g)
      jump == [sourceBlock |-> g.cur, tentativeTarget |-> t, targetLabel |-> label]
  IN  [CreateBr(insertBB(g), t) EXCEPT
        !.unresolvedGotos[currentCleanupScope(g) + 1] = Append(@, jump)]

\* Mutant: a resolved goto stays in the list.
tryResolveGotosKeeps(g, label, block) ==
  FoldLeft(LAMBDA h, j : IF j.targetLabel = label
                         THEN replaceAllUsesWith(h, j.tentativeTarget, block) ELSE h,
           g, g.unresolvedGotos[currentCleanupScope(g) + 1])

tryResolveGotos(g, label, block) ==
  LET d    == currentCleanupScope(g) + 1
      hits == SelectSeq(g.unresolvedGotos[d], LAMBDA j : j.targetLabel = label)
      g1   == FoldLeft(LAMBDA h, j : replaceAllUsesWith(h, j.tentativeTarget, block),
                       g, hits)
  IN  [g1 EXCEPT !.unresolvedGotos[d] =
                   SelectSeq(@, LAMBDA j : j.targetLabel # label)]

pushTryCatch(g, catchBlocks) ==
  [g EXCEPT
    !.tryCatchScopes = Append(@, [cleanupScope |-> currentCleanupScope(g),
                                  catchBlocks |-> catchBlocks]),
    !.landingPads[currentCleanupScope(g) + 1] = Append(@, None)]

popTryCatch(g) ==
  [g EXCEPT !.tryCatchScopes = Front(@),
            !.landingPads[currentCleanupScope(g) + 1] = Front(@)]

isCatchingNonExceptions(g) ==
  \E tc \in ToSet(g.tryCatchScopes) :
    \E cb \in ToSet(tc.catchBlocks) : cb.cls # "Exception"

-----------------------------------------------------------------------------
(* Landing pads *)

getOrCreateResumeUnwindBlock(g) ==
  IF g.resumeUnwindBlock # None THEN g
  ELSE [insertBB(g) EXCEPT !.resumeUnwindBlock = NewBlock(g),
                           !.ir[NewBlock(g)].op = "resume"]

\* Mutant: lastCleanup is not updated.
PadCleanupsAgain(st, pad, tc) ==
  IF st.last = tc.cleanupScope THEN st
  ELSE LET after == NewBlock(st.g)
           g1 == runCleanups(insertBB(st.g), st.last, tc.cleanupScope, after)
       IN  [st EXCEPT !.g = [SetInsertPoint(g1, after) EXCEPT !.ir[pad].cleanup = TRUE]]

(* The cleanups between the try/catch below and this one. *)
PadCleanups(st, pad, tc) ==
  IF st.last = tc.cleanupScope THEN st
  ELSE LET after == NewBlock(st.g)
           g1 == runCleanups(insertBB(st.g), st.last, tc.cleanupScope, after)
       IN  [g |-> [SetInsertPoint(g1, after) EXCEPT !.ir[pad].cleanup = TRUE],
            last |-> tc.cleanupScope]

(* The comparison with the class of one catch. *)
PadCatch(st, pad, cb) ==
  LET mismatch == NewBlock(st.g)
      g1 == Terminate(insertBB(st.g), st.g.cur, "match", <<cb.bodyBB, mismatch>>)
  IN  [st EXCEPT !.g = [SetInsertPoint(g1, mismatch) EXCEPT
                          !.ir[st.g.cur].cls = cb.cls,
                          !.ir[pad].clauses = Append(@, cb.cls)]]

PadCatches(st, pad, tc) ==
  FoldLeft(LAMBDA s, cb : PadCatch(s, pad, cb), st, tc.catchBlocks)

(* No catch matched: run what is left and resume unwinding. *)
PadResume(st, pad) ==
  LET g1 == getOrCreateResumeUnwindBlock(st.g)
      resume == g1.resumeUnwindBlock
  IN  IF st.last > 0
      THEN runCleanups([g1 EXCEPT !.ir[pad].cleanup = TRUE], st.last, 0, resume)
      ELSE IF g1.tryCatchScopes # <<>> THEN replaceAllUsesWith(g1, g1.cur, resume)
      ELSE CreateBr(g1, resume)

emitLandingPad(g) ==
  LET pad == NewBlock(g)
      st0 == [g |-> SetInsertPoint(insertBB(g), pad), last |-> currentCleanupScope(g)]
      st1 == FoldLeft(LAMBDA st, tc : PadCatches(PadCleanups(st, pad, tc), pad, tc),
                      st0, Reverse(g.tryCatchScopes))
  IN  SetInsertPoint(PadResume(st1, pad), g.cur)

(* The innermost landing pad is the last element of the list of the        *)
(* current cleanup scope, emitted when it is first needed.                 *)
getLandingPad(g) ==
  LET d    == currentCleanupScope(g) + 1
      pads == IF g.landingPads[d] = <<>> THEN <<None>> ELSE g.landingPads[d]
      g1   == [g EXCEPT !.landingPads[d] = pads]
  IN  IF Last(pads) # None THEN g1
      ELSE [emitLandingPad(g1) EXCEPT
              !.landingPads[d] = Front(pads) \o <<NewBlock(g1)>>]

Pad(g) == Last(g.landingPads[currentCleanupScope(g) + 1])

-----------------------------------------------------------------------------
(* History: the entities around a point, and the sites to be checked. *)

CleanupAround(b) == [kind |-> "cleanup", block |-> b, catchBlocks |-> <<>>]
FinallyAround(b) == [kind |-> "finally", block |-> b, catchBlocks |-> <<>>]
CatchAround(cbs) == [kind |-> "catch", block |-> None, catchBlocks |-> cbs]

(* The finally blocks a point is in (not their try blocks): sc.tf. *)
Finallys(ns) == SelectSeq(ns, LAMBDA e : e.kind = "finally")

(* The cleanups of a nest, innermost first: what leaving all of it runs. *)
Leaving(ns) ==
  LET cleanups == Reverse(SelectSeq(ns, LAMBDA e : e.kind = "cleanup"))
  IN  [k \in DOMAIN cleanups |-> cleanups[k].block]

Inside(ns, outer) == SubSeq(ns, Len(outer) + 1, Len(ns))

(* A jump from the current block to a block with the nest outer around it. *)
JumpSite(block, outer) ==
  [kind |-> "jump", from |-> gen.cur, nest |-> nest,
   dest |-> block, outer |-> outer, label |-> None, nothrow |-> FALSE]

GotoSite(label) ==
  [kind |-> "goto", from |-> gen.cur, nest |-> nest,
   dest |-> None, outer |-> <<>>, label |-> label, nothrow |-> FALSE]

Gotos == {s \in sites : s.kind = "goto"}

(* A goto case that leaves cleanups. *)
SkippingSite(block, outer) == [JumpSite(block, outer) EXCEPT !.kind = "skip"]

CallSite(pad, isNothrow) ==
  [kind |-> "call", from |-> pad, nest |-> nest,
   dest |-> None, outer |-> <<>>, label |-> None, nothrow |-> isNothrow]

-----------------------------------------------------------------------------
(* The visitors of the statements.  The visitor of a compound statement is *)
(* cut where it visits a part of it.                                       *)

Frame(kind, back, next, begin, cursor, cbs) ==
  [kind |-> kind, back |-> back, next |-> next, begin |-> begin,
   cursor |-> cursor, catchBlocks |-> cbs, outer |-> nest]

Top(kind) == frames # <<>> /\ Last(frames).kind = kind

(* A catch or return in a finally block is an error of the front end. *)
InFinalbody == Finallys(nest) # <<>>

InExpression == Top("expr") \/ Top("return")

AtStatement == done = "no" /\ ~InExpression

UseScope == used.scopes < MaxScopes /\ used' = [used EXCEPT !.scopes = @ + 1]
UseSimple == used.simple < MaxSimple /\ used' = [used EXCEPT !.simple = @ + 1]

Enter(g, f) == gen' = g /\ frames' = Append(frames, f) /\ UseScope

(* visit(TryFinallyStatement): the finally block is emitted first. *)
BeginTryFinally ==
  /\ AtStatement
  /\ LET final == NewBlock(gen)
     IN  /\ Enter(SetInsertPoint(insertBB(insertBB(gen)), final),
               Frame("finalbody", gen.cur, final + 1, final, None, <<>>))
         /\ nest' = Append(nest, FinallyAround(final))
  /\ UNCHANGED <<labels, targets, retBlock, done, sites>>

EndFinalbody ==
  /\ done = "no" /\ Top("finalbody")
  /\ LET f == Last(frames)
     IN  /\ gen' = SetInsertPoint(pushCleanup(gen, f.begin, gen.cur), f.back)
         /\ frames' = [frames EXCEPT ![Len(frames)].kind = "tryfinally",
                                     ![Len(frames)].cursor = currentCleanupScope(gen)]
         /\ nest' = Append(f.outer, CleanupAround(f.begin))
  /\ UNCHANGED <<labels, targets, retBlock, used, done, sites>>

EndTryFinally ==
  /\ done = "no" /\ Top("tryfinally")
  /\ LET f == Last(frames)
         g == runCleanups(gen, currentCleanupScope(gen), f.cursor, f.next)
     IN  /\ gen' = popCleanups(SetInsertPoint(g, f.next), f.cursor)
         /\ frames' = Front(frames)
         /\ nest' = f.outer
         /\ sites' = sites \cup {JumpSite(f.next, f.outer)}
  /\ UNCHANGED <<labels, targets, retBlock, used, done>>

(* visit(TryCatchStatement) and the constructor of TryCatchScope: the      *)
(* catch bodies are emitted before the scope is registered.                *)
BeginTryCatch(c) ==
  /\ AtStatement /\ ~InFinalbody
  /\ LET end == NewBlock(gen)
     IN  Enter(SetInsertPoint(insertBB(insertBB(gen)), end + 1),
               Frame("catchbody", gen.cur, end, end + 1, None,
                     <<[cls |-> c, bodyBB |-> end + 1]>>))
  /\ UNCHANGED <<labels, targets, retBlock, done, nest, sites>>

(* The next catch of the same statement; none may hide it. *)
NextCatch(c) ==
  /\ done = "no" /\ Top("catchbody")
  /\ UseSimple
  /\ LET f == Last(frames)
         body == NewBlock(gen)
     IN  /\ ~\E cb \in ToSet(f.catchBlocks) : Catches(cb.cls, c)
         /\ gen' = SetInsertPoint(insertBB(CreateBr(gen, f.next)), body)
         /\ frames' = [frames EXCEPT ![Len(frames)].catchBlocks =
                         Append(@, [cls |-> c, bodyBB |-> body])]
  /\ UNCHANGED <<labels, targets, retBlock, done, nest, sites>>

EndCatchBody ==
  /\ done = "no" /\ Top("catchbody")
  /\ LET f == Last(frames)
     IN  /\ gen' = SetInsertPoint(pushTryCatch(CreateBr(gen, f.next), f.catchBlocks),
                                  f.back)
         /\ frames' = [frames EXCEPT ![Len(frames)].kind = "trycatch"]
         /\ nest' = Append(nest, CatchAround(f.catchBlocks))
  /\ UNCHANGED <<labels, targets, retBlock, used, done, sites>>

EndTryCatch ==
  /\ done = "no" /\ Top("trycatch")
  /\ LET f == Last(frames)
     IN  /\ gen' = SetInsertPoint(popTryCatch(CreateBr(gen, f.next)), f.next)
         /\ frames' = Front(frames)
         /\ nest' = f.outer
  /\ UNCHANGED <<labels, targets, retBlock, used, done, sites>>

(* visit(ReturnStatement) before its expression. *)
BeginReturn ==
  /\ AtStatement /\ ~InFinalbody
  /\ Enter(gen, Frame("return", None, None, None, currentCleanupScope(gen), <<>>))
  /\ UNCHANGED <<labels, targets, retBlock, done, nest, sites>>

(* FuncGenState::callOrInvoke, for a callee that may throw, or only Errors *)
(* if it is nothrow.                                                       *)
Call(g, isNothrow) ==
  LET plain == \/ isNothrow /\ ~isCatchingNonExceptions(g)
               \/ g.tryCatchScopes = <<>> /\ g.cleanupScopes = <<>>
      g1 == getLandingPad(g)
      post == NewBlock(g1)
  IN  IF plain THEN [g |-> g, pad |-> None]
      ELSE [g |-> SetInsertPoint(Terminate(insertBB(g1), g.cur, "invoke", <<post, Pad(g1)>>),
                                 post),
            pad |-> Pad(g1)]

(* A temporary with a destructor, the first of an expression statement or  *)
(* another one: a cleanup that lives to the end of the expression.         *)
pushVarDtorCleanup(isNothrow) ==
  /\ AtStatement \/ (done = "no" /\ InExpression)
  /\ LET dtor == NewBlock(gen)
         c == Call(SetInsertPoint(insertBB(gen), dtor), isNothrow)
     IN  /\ gen' = SetInsertPoint(pushCleanup(c.g, dtor, c.g.cur), gen.cur)
         /\ nest' = Append(nest, CleanupAround(dtor))
         /\ sites' = sites \cup {CallSite(c.pad, isNothrow)}
  /\ frames' = IF InExpression THEN frames
               ELSE Append(frames, Frame("expr", None, None, None,
                                         currentCleanupScope(gen), <<>>))
  /\ UseScope
  /\ UNCHANGED <<labels, targets, retBlock, done>>

(* ToElemVisitor::getResult *)
EndExpression ==
  /\ done = "no" /\ Top("expr")
  /\ LET f == Last(frames)
         end == NewBlock(gen)
         g == runCleanups(insertBB(gen), currentCleanupScope(gen), f.cursor, end)
     IN  /\ gen' = SetInsertPoint(popCleanups(g, f.cursor), end)
         /\ sites' = sites \cup {JumpSite(end, f.outer)}
  /\ frames' = Front(frames)
  /\ nest' = Last(frames).outer
  /\ UNCHANGED <<labels, targets, retBlock, used, done>>

(* visit(ReturnStatement): with cleanups, a shared return block. *)
EndReturn ==
  /\ done = "no" /\ Top("return")
  /\ LET f == Last(frames)
         shared == retBlock # None
         g0 == IF shared THEN gen ELSE insertBB(gen)
         ret == IF shared THEN retBlock ELSE NewBlock(gen)
         g1 == runCleanups(g0, currentCleanupScope(gen), 0, ret)
         g2 == Terminate(popCleanups(g1, f.cursor), ret, "ret", <<>>)
     IN  IF currentCleanupScope(gen) = 0
         THEN /\ gen' = SetInsertPoint(
                          insertBB(Terminate(gen, gen.cur, "ret", <<>>)), NewBlock(gen))
              /\ UNCHANGED <<retBlock, sites>>
         ELSE /\ gen' = SetInsertPoint(insertBB(g2), NewBlock(g2))
              /\ retBlock' = ret
              /\ sites' = sites \cup {JumpSite(ret, <<>>)}
  /\ frames' = Front(frames)
  /\ nest' = Last(frames).outer
  /\ UNCHANGED <<labels, targets, used, done>>

(* A call in an expression. *)
callOrInvoke(isNothrow) ==
  /\ done = "no"
  /\ UseSimple
  /\ LET c == Call(gen, isNothrow)
     IN  gen' = c.g /\ sites' = sites \cup {CallSite(c.pad, isNothrow)}
  /\ UNCHANGED <<frames, labels, targets, retBlock, done, nest>>

\* Mutant: the target is taken to be outside all cleanups.
TargetOutermost(b) == [block |-> b, cleanupScope |-> 0, outer |-> nest]

Target(b) == [block |-> b, cleanupScope |-> currentCleanupScope(gen), outer |-> nest]

(* The block of the case of a switch that goto case names, if it has been  *)
(* created, and whether the case has been reached.                         *)
NoCase == [block |-> None, reached |-> FALSE, outer |-> nest]

(* Loops and switches: pushLoopTarget, pushBreakTarget and their pops.     *)
BeginBreakable(kind) ==
  /\ AtStatement
  /\ LET cond == NewBlock(gen)
         g == Terminate(CreateBr(insertBB(insertBB(insertBB(gen))), cond),
                        cond, "cond", <<cond + 1, cond + 2>>)
     IN  /\ Enter(SetInsertPoint(g, cond + 1),
                  Frame(kind, None, cond + 2, cond, None, <<>>))
         /\ targets' = [breaks |-> Append(targets.breaks, Target(cond + 2)),
                        continues |-> IF kind = "loop" THEN Append(targets.continues, Target(cond))
                                      ELSE targets.continues,
                        cases |-> IF kind = "switch" THEN Append(targets.cases, NoCase)
                                  ELSE targets.cases]
  /\ UNCHANGED <<labels, retBlock, done, nest, sites>>

EndBreakable(kind) ==
  /\ done = "no" /\ Top(kind)
  /\ kind = "switch" =>
       Last(targets.cases).block = None \/ Last(targets.cases).reached
  /\ LET f == Last(frames)
     IN  gen' = SetInsertPoint(CreateBr(gen, IF kind = "loop" THEN f.begin ELSE f.next),
                               f.next)
  /\ targets' = [breaks |-> Front(targets.breaks),
                 continues |-> IF kind = "loop" THEN Front(targets.continues)
                               ELSE targets.continues,
                 cases |-> IF kind = "switch" THEN Front(targets.cases)
                           ELSE targets.cases]
  /\ frames' = Front(frames)
  /\ UNCHANGED <<labels, retBlock, used, done, nest, sites>>

(* jumpToStatement and jumpToClosest, the case k = Len(ts): break and      *)
(* continue, with and without a label.                                     *)
JumpTo(ts, k) ==
  LET g == runCleanups(gen, currentCleanupScope(gen), ts[k].cleanupScope, ts[k].block)
  IN  /\ Finallys(ts[k].outer) = Finallys(nest)
      /\ gen' = SetInsertPoint(insertBB(g), NewBlock(g))
      /\ sites' = sites \cup {JumpSite(ts[k].block, ts[k].outer)}

jumpToStatement ==
  /\ AtStatement
  /\ UseSimple
  /\ \/ \E k \in DOMAIN targets.breaks : JumpTo(targets.breaks, k)
     \/ \E k \in DOMAIN targets.continues : JumpTo(targets.continues, k)
  /\ UNCHANGED <<frames, labels, targets, retBlock, done, nest>>

(* SwitchTargets::getOrCreate for that case of the innermost switch. *)
CaseBlock == IF Last(targets.cases).block # None THEN Last(targets.cases).block
             ELSE NewBlock(gen)
WithCase == IF Last(targets.cases).block # None THEN gen ELSE insertBB(gen)

(* visit(CaseStatement), visit(DefaultStatement): not inside a try or      *)
(* finally block that is inside the switch.                                *)
Case ==
  /\ AtStatement
  /\ targets.cases # <<>>
  /\ ~Last(targets.cases).reached
  /\ nest = Last(targets.cases).outer
  /\ UseSimple
  /\ gen' = SetInsertPoint(CreateBr(WithCase, CaseBlock), CaseBlock)
  /\ targets' = [targets EXCEPT !.cases[Len(targets.cases)] =
                   [@ EXCEPT !.block = CaseBlock, !.reached = TRUE]]
  /\ UNCHANGED <<frames, labels, retBlock, done, nest, sites>>

(* visit(GotoCaseStatement), visit(GotoDefaultStatement): a branch, without *)
(* runCleanups.                                                            *)
GotoCase ==
  /\ AtStatement
  /\ targets.cases # <<>>
  /\ UseSimple
  /\ LET sw == Last(targets.cases)
         g == CreateBr(WithCase, CaseBlock)
     IN  /\ Finallys(nest) = Finallys(sw.outer)
         /\ gen' = SetInsertPoint(insertBB(g), NewBlock(g))
         /\ targets' = [targets EXCEPT !.cases[Len(targets.cases)].block = CaseBlock]
         /\ sites' = sites \cup
              {IF Leaving(Inside(nest, sw.outer)) = <<>> THEN JumpSite(CaseBlock, sw.outer)
               ELSE SkippingSite(CaseBlock, sw.outer)}
  /\ UNCHANGED <<frames, labels, retBlock, done, nest>>

(* checkLabel of the front end: a goto from a point with the nest from     *)
(* around it goes neither into a try block nor into or out of a finally    *)
(* block.                                                                  *)
checkLabel(from, to) == IsPrefix(to, from) /\ Finallys(to) = Finallys(from)

(* visit(LabelStatement) and addLabelTarget. *)
addLabelTarget(l) ==
  /\ AtStatement
  /\ labels[l].block = None
  /\ \A s \in Gotos : s.label = l => checkLabel(s.nest, nest)
  /\ LET b == NewBlock(gen)
         g == tryResolveGotos(insertBB(gen), l, b)
     IN  /\ gen' = SetInsertPoint(CreateBr(g, b), b)
         /\ labels' = [labels EXCEPT ![l] = [block |-> b, outer |-> nest,
                          cleanupScope |-> currentCleanupScope(gen)]]
  /\ UseSimple
  /\ UNCHANGED <<frames, targets, retBlock, done, nest, sites>>

(* visit(GotoStatement) and jumpToLabel.  There are no conditions: a goto  *)
(* back would make a finally block endless.                                *)
jumpToLabel(l) ==
  /\ AtStatement
  /\ UseSimple
  /\ IF labels[l].block # None
     THEN LET g == runCleanups(gen, currentCleanupScope(gen),
                               labels[l].cleanupScope, labels[l].block)
          IN  /\ checkLabel(nest, labels[l].outer)
              /\ ~InFinalbody
              /\ gen' = SetInsertPoint(insertBB(g), NewBlock(g))
              /\ sites' = sites \cup {JumpSite(labels[l].block, labels[l].outer)}
     ELSE LET g == registerUnresolvedGoto(gen, l)
          IN  /\ gen' = SetInsertPoint(insertBB(g), NewBlock(g))
              /\ sites' = sites \cup {GotoSite(l)}
  /\ UNCHANGED <<frames, labels, targets, retBlock, done, nest>>

(* DtoDefineFunction after the body, and ~TryCatchFinallyScopes.  The      *)
(* cleanup that is open here is va_end.  The front end has made sure that  *)
(* every label exists.                                                     *)
Finish ==
  /\ done = "no" /\ frames = <<>>
  /\ \A s \in Gotos : labels[s.label].block # None
  /\ LET shared == retBlock # None
         g0 == IF shared THEN gen ELSE insertBB(gen)
         ret == IF shared THEN retBlock ELSE NewBlock(gen)
         g1 == runCleanups(g0, currentCleanupScope(gen), 0, ret)
         g2 == popCleanups(SetInsertPoint(g1, ret), 0)
         g3 == IF gen.cleanupScopes = <<>> THEN gen ELSE g2
     IN  /\ gen' = Terminate(g3, g3.cur, "ret", <<>>)
         /\ done' = IF g3.unresolvedGotos[1] = <<>> THEN "ok" ELSE "error"
         /\ retBlock' = IF gen.cleanupScopes = <<>> THEN retBlock ELSE ret
         /\ sites' = IF gen.cleanupScopes = <<>> THEN sites
                     ELSE sites \cup {JumpSite(ret, <<>>)}
  /\ nest' = <<>>
  /\ UNCHANGED <<frames, labels, targets, used>>

-----------------------------------------------------------------------------
EmptyGen ==
  [ir |-> <<EmptyBlock>>, cur |-> 1, cleanupScopes |-> <<>>,
   unresolvedGotos |-> <<<<>>>>, landingPads |-> <<<<>>>>,
   tryCatchScopes |-> <<>>, resumeUnwindBlock |-> None]

(* A D-style variadic function starts with a cleanup that calls va_end. *)
Init ==
  /\ \E variadic \in BOOLEAN :
       /\ gen = IF variadic THEN pushCleanup(insertBB(EmptyGen), 2, 2) ELSE EmptyGen
       /\ nest = IF variadic THEN <<CleanupAround(2)>> ELSE <<>>
  /\ frames = <<>>
  /\ labels = [l \in Labels |-> [block |-> None, outer |-> <<>>, cleanupScope |-> 0]]
  /\ targets = [breaks |-> <<>>, continues |-> <<>>, cases |-> <<>>]
  /\ retBlock = None /\ used = [scopes |-> 0, simple |-> 0] /\ done = "no" /\ sites = {}

Next ==
  \/ BeginTryFinally \/ EndFinalbody \/ EndTryFinally
  \/ (\E c \in Caught : BeginTryCatch(c) \/ NextCatch(c))
  \/ EndCatchBody \/ EndTryCatch
  \/ (\E isNothrow \in BOOLEAN : pushVarDtorCleanup(isNothrow)) \/ EndExpression
  \/ BeginReturn \/ EndReturn
  \/ (\E isNothrow \in BOOLEAN : callOrInvoke(isNothrow))
  \/ (\E kind \in {"loop", "switch"} : BeginBreakable(kind) \/ EndBreakable(kind))
  \/ jumpToStatement \/ Case \/ GotoCase
  \/ (\E l \in Labels : addLabelTarget(l) \/ jumpToLabel(l))
  \/ Finish

Spec == Init /\ [][Next]_vars

-----------------------------------------------------------------------------
(* Running the generated code. *)

(* One block: its stores happen, and then its terminator.  clause is the   *)
(* class the unwinder selected; calls inside a cleanup return normally,    *)
(* and loops and switches in it end at once.  A switch on a selector that  *)
(* nobody stored goes nowhere.                                             *)
RunBlock(s, clause) ==
  LET b   == gen.ir[s.at]
      stored(c) == \E st \in b.stores : st[1] = c
      val == [c \in DOMAIN s.val |->
                IF stored(c) THEN (CHOOSE st \in b.stores : st[1] = c)[2] ELSE s.val[c]]
      next == CASE b.op \in {"br", "invoke"} -> b.to[1]
                [] b.op = "cond"   -> b.to[2]
                [] b.op = "match"  -> IF b.cls = clause THEN b.to[1] ELSE b.to[2]
                [] b.op = "switch" -> IF val[b.sel] + 1 \in DOMAIN b.to
                                      THEN b.to[val[b.sel] + 1] ELSE None
                [] OTHER -> None
  IN  [at |-> next, val |-> val, visited |-> Append(s.visited, s.at)]

Unset == 1000

(* The blocks that are run from one block until another is reached, or     *)
(* until the code ends or has gone through more blocks than there are.     *)
Run(from, clause, until) ==
  LET n == Len(gen.ir)
      w[k \in 0..n] ==
        IF k = 0
        THEN [at |-> from, val |-> [c \in 1..n |-> Unset], visited |-> <<>>]
        ELSE LET p == w[k - 1]
             IN  IF p.at = None \/ (p.at = until /\ k > 1) THEN p ELSE RunBlock(p, clause)
  IN  w[n]

(* All cleanups but those inside finally blocks that the nest ns is not    *)
(* in: they run, or not, as part of these.                                 *)
CleanupsSeenFrom(ns) ==
  UNION {{s.nest[k].block :
            k \in {k \in DOMAIN s.nest :
                     /\ s.nest[k].kind = "cleanup"
                     /\ IsPrefix(Finallys(SubSeq(s.nest, 1, k)), Finallys(ns))}} :
         s \in sites}

Executes(s, from, clause, until, expected) ==
  LET r == Run(from, clause, until)
      cleanups == CleanupsSeenFrom(s.nest)
  IN  /\ r.at = until
      /\ SelectSeq(Tail(r.visited), LAMBDA b : b \in cleanups) = expected

(* The normal end of a scope, break, continue, a goto back, goto case from *)
(* a point with no cleanups in between, and return: each executes exactly  *)
(* the cleanups between the jump and its target, each once, innermost      *)
(* first, and arrives at the target, whatever other exits were added to    *)
(* those cleanups (CleanupScope::run, runCleanups).  A goto case or goto   *)
(* default that leaves a cleanup is not covered: it skips it.              *)
ExitsRunCleanups ==
  done = "ok" =>
    \A s \in {s \in sites : s.kind = "jump"} :
      /\ IsPrefix(s.outer, s.nest)
      /\ Executes(s, s.from, "none", s.dest, Leaving(Inside(s.nest, s.outer)))

(* So does a goto whose label comes later and that is fixed up while the   *)
(* scopes around it are popped (popCleanups, tryResolveGotos).             *)
GotosRunCleanups ==
  done = "ok" =>
    \A s \in Gotos :
      Executes(s, s.from, "none", labels[s.label].block,
               Leaving(Inside(s.nest, labels[s.label].outer)))

(* A goto the front end accepted is resolved by the end of the function,   *)
(* so that ~TryCatchFinallyScopes never stops the compiler with an error   *)
(* for a legal program.                                                    *)
LegalGotosResolve == done # "error"

(* What an exception of class cls thrown inside nest ns has to do: run the *)
(* cleanups up to the innermost try with a catch for it and enter the      *)
(* first such catch, or run all of them and leave the function.            *)
CatchBlockOf(e, cls) ==
  SelectSeq(e.catchBlocks, LAMBDA cb : Catches(cb.cls, cls))

(* The unwinder selects the first clause of the landing pad that fits.     *)
SelectClause(pad, cls) ==
  LET fits == SelectSeq(gen.ir[pad].clauses, LAMBDA c : Catches(c, cls))
  IN  IF fits = <<>> THEN "none" ELSE Head(fits)

Unwinds(s, cls) ==
  LET hits == {k \in DOMAIN s.nest : CatchBlockOf(s.nest[k], cls) # <<>>}
      k == CHOOSE k \in hits : \A j \in hits : j <= k
  IN  IF hits # {}
      THEN /\ s.from # None
           /\ Executes(s, s.from, SelectClause(s.from, cls),
                       Head(CatchBlockOf(s.nest[k], cls)).bodyBB,
                       Leaving(SubSeq(s.nest, k, Len(s.nest))))
      ELSE \/ s.nothrow /\ s.from = None
           \/ s.from = None /\ Leaving(s.nest) = <<>>
           \/ /\ s.from # None
              /\ gen.ir[s.from].cleanup <=> Leaving(s.nest) # <<>>
              /\ Executes(s, s.from, SelectClause(s.from, cls),
                          gen.resumeUnwindBlock, Leaving(s.nest))

(* Every call that throws runs the cleanups inside the innermost matching  *)
(* catch, and no other, and enters that catch; landing pads are shared     *)
(* between calls, and each stays right while statements are added and      *)
(* scopes are popped (emitLandingPad, getLandingPad, callOrInvoke).        *)
ThrowsRunCleanups ==
  done = "ok" =>
    \A s \in {s \in sites : s.kind = "call"} :
      \A cls \in Classes : (s.nothrow => cls = "Error") => Unwinds(s, cls)
=============================================================================
