---------------------------- MODULE PumpSpectrum ----------------------------
(***************************************************************************)
(* How one FFT frame becomes "a tone in the pump's frequency band, this    *)
(* far above the noise".  A spectrum gives every bin of the analysis band  *)
(* a power; powers are integers, and a signal-to-noise ratio is kept as a  *)
(* fraction instead of its logarithm.  A peak is placed between bins by a  *)
(* parabola through its neighbours: that decides only whether a peak in a  *)
(* bin at the edge of the pump band counts as inside, and is left open.    *)
(***************************************************************************)
EXTENDS Integers, FiniteSets, Sums

CONSTANTS
  kMin, kMax,    \* the first and the last bin of the analysis band
  PumpBins,      \* bins whose peaks lie between PEAK_MIN_HZ and PEAK_MAX_HZ
  EdgeBins,      \* bins whose peaks may lie on either side of one of the two
  Powers,        \* bound: the powers a bin may have
  ClusterGap     \* CLUSTER_GAP

AnalysisBins == kMin..kMax

ASSUME SpectrumConstants ==
  /\ kMin \in Nat \ {0} /\ kMax \in Nat /\ kMin <= kMax
  /\ (PumpBins \cup EdgeBins) \subseteq AnalysisBins
  /\ PumpBins \cap EdgeBins = {}
  /\ Powers \subseteq Nat /\ ClusterGap \in Nat

VARIABLES
  spectrum,  \* _magSq over the analysis band
  inside,    \* the edge bins whose interpolated peak is inside the pump band
  tone       \* what analyze() made of the spectrum

spectrumVars == <<spectrum, inside, tone>>

------------------------------------------------------------------------------
Power(bins) == Total([b \in 1..kMax |-> IF b \in bins THEN spectrum[b] ELSE 0])

(* The loudest bins that together reach TOP_K_ENERGY_FRACTION, four fifths *)
(* of the power; of two equally loud bins the lower comes first.           *)
Louder(a, b) == spectrum[a] > spectrum[b] \/ (spectrum[a] = spectrum[b] /\ a < b)
TopByEnergyFraction ==
  LET First(k) == {b \in AnalysisBins :
                    Cardinality({c \in AnalysisBins : Louder(c, b)}) < k}
      enough == {k \in 0..Cardinality(AnalysisBins) :
                   5 * Power(First(k)) >= 4 * Power(AnalysisBins)}
  IN First(CHOOSE k \in enough : \A j \in enough : k <= j)

\* The lowest bin of a cluster taken for its loudest one.
X_ClusterPeaks(top) ==
  LET Opens(b) == \A c \in top : c < b => b - c > ClusterGap
      ClusterOf(s) == {b \in top : b >= s /\ \A c \in (s + 1)..b : c \in top => ~Opens(c)}
  IN {[center |-> s, energy |-> Power(ClusterOf(s)), count |-> Cardinality(ClusterOf(s))] :
        s \in {b \in top : Opens(b)}}

(* Bins no further apart than the gap belong to one tone, spread by the    *)
(* window over its neighbours; its loudest bin is the tone's place.        *)
ClusterPeaks(top) ==
  LET Opens(b) == \A c \in top : c < b => b - c > ClusterGap
      ClusterOf(s) == {b \in top : b >= s /\ \A c \in (s + 1)..b : c \in top => ~Opens(c)}
      Cluster(bins) == [center |-> CHOOSE b \in bins : \A c \in bins : b = c \/ Louder(b, c),
                        energy |-> Power(bins), count |-> Cardinality(bins)]
  IN {Cluster(ClusterOf(s)) : s \in {b \in top : Opens(b)}}

(* The noise of a bin outside the top ones; none when there is no such bin *)
(* or no peak, and then no cluster has a usable ratio.                     *)
NoisePerBin(top) ==
  LET rest == AnalysisBins \ top
  IN IF rest = {} \/ top = {} THEN <<>> ELSE <<Power(rest), Cardinality(rest)>>

(* Energy over the noise of as many bins, as a fraction.                   *)
ClusterSnr(c, noise) == [over |-> c.energy * noise[2], under |-> noise[1] * c.count]

NoTone == [hasCluster |-> FALSE]

(* The strongest cluster whose peak is inside the pump band, the lowest of *)
(* equally strong ones.                                                    *)
SelectPumpCluster(clusters, noise) ==
  LET inBand == {c \in clusters : c.center \in PumpBins \cup inside}
      best == CHOOSE c \in inBand : \A d \in inBand :
                c.energy > d.energy \/ (c.energy = d.energy /\ c.center <= d.center)
  IN IF noise = <<>> \/ inBand = {} THEN NoTone
     ELSE [hasCluster |-> TRUE, at |-> best.center, energy |-> best.energy,
           snr |-> ClusterSnr(best, noise)]

(* The spectral part of analyze().                                         *)
Analysis ==
  LET top == TopByEnergyFraction
  IN SelectPumpCluster(ClusterPeaks(top), NoisePerBin(top))

------------------------------------------------------------------------------
NotAnalyzed == [analyzed |-> FALSE]

SpectrumInit ==
  /\ spectrum \in [AnalysisBins -> Powers]
  /\ inside \in SUBSET EdgeBins
  /\ tone = NotAnalyzed

Analyze == tone' = Analysis /\ UNCHANGED <<spectrum, inside>>

------------------------------------------------------------------------------
(* Properties.                                                             *)

SpectrumSpec == SpectrumInit /\ [][Analyze]_spectrumVars

\* Between the bins b and c lie two neighbors among the top ones that are
\* further from each other than the gap.
Apart(b, c, top) ==
  \E x, y \in top :
    /\ y - x > ClusterGap /\ \A z \in top : z <= x \/ z >= y
    /\ (b <= x /\ y <= c) \/ (c <= x /\ y <= b)

(* The loudest tone of a spectrum is found when it lies in the pump band   *)
(* and leaves some bin for the noise; a bin of the pump band that holds    *)
(* more than the fifth of the power the top bins may leave out is never    *)
(* lost to a weaker tone, whatever louder tones lie outside the band,      *)
(* unless the top bins join it to one of them; and no tone found is weaker *)
(* than the noise (analyze, topByEnergyFraction, clusterPeaks,             *)
(* selectPumpCluster).                                                     *)
PumpToneFound ==
  LET loudest == CHOOSE b \in AnalysisBins : \A c \in AnalysisBins : b = c \/ Louder(b, c)
      top == TopByEnergyFraction
      large == {b \in PumpBins : /\ 5 * spectrum[b] > Power(AnalysisBins)
                                 /\ \A c \in top \ PumpBins : Louder(b, c) \/ Apart(b, c, top)}
  IN tone # NotAnalyzed =>
       /\ loudest \in PumpBins /\ spectrum[loudest] > 0 /\ top # AnalysisBins
            => tone.hasCluster
       /\ tone.hasCluster =>
            /\ \A b \in large : tone.energy >= spectrum[b]
            /\ tone.snr.over >= tone.snr.under
=============================================================================
