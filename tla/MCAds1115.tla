----------------------------- MODULE MCAds1115 -----------------------------
(* The converter at every data rate of its table, and as the board has it. *)
EXTENDS Ads1115

\* ads1115_data_rate_t, in samples per second.
DataRates == {16, 32, 64, 128, 250, 475, 860}

s_conversion_to_ms ==
  [sps \in DataRates |->
     CASE sps = 16 -> 63 [] sps = 32 -> 32 [] sps = 64 -> 16 [] sps = 128 -> 8
       [] sps = 250 -> 4 [] sps = 475 -> 3 [] sps = 860 -> 2]

\* A conversion takes the inverse of the rate; the model's clock ticks in ms.
ConversionMs(sps) == (999 + sps) \div sps

At(sps) == [table |-> s_conversion_to_ms[sps], conversion |-> ConversionMs(sps)]

TableRates == {At(sps) : sps \in DataRates}

\* Channel 0 at 128 samples per second (main.c:263-265): 7.8 ms.
BoardRate == {At(128)}
============================================================================
