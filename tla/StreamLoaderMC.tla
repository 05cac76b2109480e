--------------------------- MODULE StreamLoaderMC ---------------------------
(***************************************************************************)
(* Loads of two chunks one after the other: the end of one sample and the  *)
(* beginning of the next.  A group has 12 elements, a stick four, the      *)
(* cache two sticks.  In the narrow variants positions have five bits,     *)
(* from -16 to 15.                                                         *)
(***************************************************************************)
EXTENDS StreamLoader

MCSignal(sample, i) == 100 * sample + i * i + 3 * i + 1

MCSplit(b, e) == [even |-> b, odd |-> e]

MCForward(sample, mode, len, pad, begin, count) ==
    [sample |-> sample, inverse |-> FALSE, mode |-> mode, length |-> len,
     pad |-> pad, begin |-> begin, count |-> count]

MCInverse(sample, len, begin, count) ==
    [MCForward(sample, "zero", len, 0, begin, count) EXCEPT !.inverse = TRUE]

\* All of a short signal, twice; the two ends of a longer one.
MCShort(mode, len) ==
    <<MCForward(0, mode, len, 3, MCSplit(0, 0), MCSplit((len + 7) \div 2, (len + 6) \div 2)),
      MCForward(1, mode, len, 3, MCSplit(0, 1), MCSplit(2, 1))>>

MCLong(mode, len) ==
    <<MCForward(0, mode, len, 5, MCSplit((len - 5) \div 2, (len - 7) \div 2),
                MCSplit(8, 8)),
      MCForward(1, mode, len, 5, MCSplit(0, 1), MCSplit(14, 12))>>

\* All of a signal, extended by as much again, and more, as it is long.
MCExtended(mode, len) ==
    <<MCForward(0, mode, len, 32, MCSplit(0, 0),
                MCSplit((len + 65) \div 2, (len + 64) \div 2))>>

MCCoefficients ==
    {<<MCInverse(0, 22, MCSplit(9, 5), MCSplit(13, 15)),
       MCInverse(1, 22, MCSplit(0, 0), MCSplit(7, 6))>>,
     <<MCInverse(0, 1, MCSplit(0, 0), MCSplit(1, 1))>>}

MCJobs ==
    [loads : {MCShort(mode, len) : mode \in Modes, len \in {2, 5}}
               \union {MCLong(mode, 21) : mode \in Modes}
               \union {MCShort(mode, 1) : mode \in Modes \ {"reflect", "antireflect"}}
               \union MCCoefficients,
     tileNative : BOOLEAN, pagePerStick : BOOLEAN]
    \union [loads : {MCExtended(mode, len) : mode \in Modes, len \in {2, 3, 4, 7, 10, 15}}
                      \union {MCExtended(mode, 1) :
                                mode \in Modes \ {"reflect", "antireflect"}},
            tileNative : {TRUE}, pagePerStick : {TRUE}]
=============================================================================
