-------------------------- MODULE Lwt2DPipelineMC --------------------------
(***************************************************************************)
(* Instances of Lwt2DPipeline: the legs of a core that has the last chunk  *)
(* of one sample and the first of the next, of plans that Planner2D makes, *)
(* and an arithmetic that tells every value apart that a wrong read or a   *)
(* lost write would change.                                                *)
(***************************************************************************)
EXTENDS Lwt2DPipeline, PlaneLegs, LiftingSchemesMC, TLC

MCJob(inverse, scheme, height, width, rows, columns) ==
    [inverse |-> inverse, scheme |-> scheme, size |-> [y |-> height, x |-> width],
     tiles |-> [y |-> rows, x |-> columns]]

\* An image that is one chunk of whole tiles; a low and wide one that is two,
\* nothing of which lies on the tiles' grid; two of the inverse; and one of the
\* inverse whose last chunk has a row only, and a last route without output.
MCJobs == {
    MCJob(FALSE, MCHaar, 64, 128, 1, 2),
    MCJob(FALSE, MCDb2, 5, 140, 1, 2),
    MCJob(TRUE, MCHaar, 64, 128, 2, 2),
    MCJob(TRUE, MCBior22, 64, 130, 2, 2),
    MCJob(TRUE, MCBior22, 33, 2, 1, 1)}

\* What depends on a value, the value being worked out once.
MCWith(value, Of(_)) == CHOOSE r \in {Of(v) : v \in {Evaluated(value)}} : TRUE

MCPlan(job, traces, cones) ==
    [inverse |-> job.inverse,
     chunks |-> ChunksOf(job, job.tiles, cones),
     pad |-> [a \in Axes |-> Pad(AxisJob(job, a))],
     apart |-> [a \in Axes |-> [s \in Streams |->
         CanonicalStart(AxisJob(job, a)) - traces[a].stream[s].shift]]]

MCLegs(job) ==
    MCWith(AxisTraces(job), LAMBDA traces :
      MCWith(AxisCones(job, traces, job.tiles), LAMBDA cones :
        MCWith(MCPlan(job, traces, cones), LAMBDA plan :
          CoreLegs(plan, Len(plan.chunks) - 1, 2))))

MCGiven == {MCLegs(job) : job \in MCJobs}

\* (A definition that a constant stands for is evaluated at every use, one that
\* it refers to only once.)
MCPrograms == MCGiven

MCPlacesOf(leg) == ToSet(leg.writes) \union UNION {load.places : load \in ToSet(leg.loads)}

MCWritten ==
    UNION {UNION {MCPlacesOf(leg) : leg \in ToSet(given)} : given \in MCGiven}

MCPlaces == MCWritten

MCModulus == 1000003

MCPlane == [P0 |-> 3, P1 |-> 5, P2 |-> 7, P3 |-> 11, Scratch |-> 13]

MCWhere(q) == MCPlane[q[1]] * 100 + q[2] * 10 + q[3]

MCDigest(window) ==
    FoldSet(LAMBDA q, acc : (acc * 31 + MCWhere(q) * 7 + window[q]) % MCModulus,
            3, DOMAIN window)

MCImage(item, q) == 100000 + 2000 * item + MCWhere(q)

MCLift(n, t, s0, s1, b) ==
    (n * 1009 + t * 101 + MCDigest(s0) * 11 + MCDigest(s1) * 17
       + MCDigest(b) * 23) % MCModulus

MCScale(n, t, w) == (n * 907 + t * 103 + MCDigest(w) * 29) % MCModulus
=============================================================================
