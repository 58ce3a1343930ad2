---------------------------- MODULE FuncSlowerLossy ----------------------------
(***************************************************************************)
(* FuncSlower with missed return probes.  attach_kretprobe is called       *)
(* without maxactive, so when more instances of a function are active than *)
(* the kretprobe has slots the kernel skips the return probe and counts it *)
(* in nmissed; a uretprobe is likewise skipped when the function does not  *)
(* return normally (longjmp).  The call returns, but trace_return never    *)
(* runs for it.                                                            *)
(***************************************************************************)
EXTENDS FuncSlower

\* Thread t returns from its innermost traced call and the return probe is
\* missed: the frame is popped and entryinfo is left as it was.
LostReturn(t) ==
  /\ ret[t].slot = 0
  /\ calls[t] # <<>>
  /\ LET fr == calls[t][Len(calls[t])] IN
       done' = Append(done, [tid |-> t, fn |-> fr.fn, start |-> fr.start,
                             end |-> clock, nested |-> fr.nested,
                             tracked |-> fr.tracked])
  /\ calls' = [calls EXCEPT ![t] = SubSeq(@, 1, Len(@) - 1)]
  /\ UNCHANGED <<clock, slot, ret, buf, lost, out, ncalls>>

LossyNext == Next \/ \E t \in Threads : LostReturn(t)

LossySpec == Init /\ [][LossyNext]_vars

\* Every printed latency is the duration of an innermost call of the
\* thread (the spec: only the innermost active call is tracked), even when
\* return probes are missed.
RecordsMeasureInnermostCalls ==
  \A i \in DOMAIN out :
    \E j \in DOMAIN done :
      /\ done[j].tid = out[i].tid
      /\ ~done[j].nested
      /\ done[j].end - done[j].start = out[i].dur
=============================================================================
