------------------------ MODULE InterleaveStagingMC ------------------------
(***************************************************************************)
(* A core works through chunks of one group (24 samples, six sticks): the  *)
(* chunks of one signal, or the ends of some signals and the beginnings of *)
(* others.                                                                 *)
(***************************************************************************)
EXTENDS InterleaveStaging

MCSignal(sample, i) == 100 * sample + i + 1

MCItem(sample, chunk, groups, len, pad, offset) ==
    LET begin == chunk * groups * SignalGroup
        rest == len - begin
    IN [sample |-> sample, begin |-> begin,
        length |-> IF rest < groups * SignalGroup THEN rest ELSE groups * SignalGroup,
        streamBegin |-> [even |-> (pad + begin + 1) \div 2, odd |-> (pad + begin) \div 2],
        offset |-> offset]

MCNoOffset == [even |-> 0, odd |-> 0]

\* With batches of a signal group, as on Wormhole.
MCJob(items, pad, len, direct, native) ==
    [items |-> items, leftPad |-> pad, length |-> len, direct |-> direct,
     tileNative |-> native, batch |-> 6]

\* One signal: at most the last chunk is not full.
MCOneSignal ==
    UNION {
      {MCJob(<<MCItem(0, 0, 1, 31, pad, MCNoOffset), MCItem(0, 1, 1, 31, pad, MCNoOffset)>>,
             pad, 31, direct, native) : pad \in {2, 3}, direct \in {"no", "even", "odd"}}
      : native \in BOOLEAN}
    \union
    {MCJob(<<MCItem(0, 0, 2, 46, pad, [even |-> 0, odd |-> 2])>>, pad, 46, "no", native) :
       pad \in {0, 1}, native \in BOOLEAN}

\* Short ends, followed by chunks of the next signal of the batch.
MCManySignals ==
    {MCJob(<<MCItem(0, 1, 1, 31, 3, MCNoOffset), MCItem(1, 0, 1, 31, 3, MCNoOffset)>>,
           3, 31, direct, TRUE) : direct \in {"no", "odd"}}
    \union {MCJob(<<MCItem(0, 0, 1, 7, 2, MCNoOffset), MCItem(1, 0, 1, 7, 2, MCNoOffset)>>,
                  2, 7, "no", FALSE)}

\* Stick by stick, as on Blackhole.
MCSticks == {[jb EXCEPT !.batch = 1] : jb \in MCOneSignal \union MCManySignals}

MCInBounds == MCOneSignal \union MCSticks
=============================================================================
