----------------------------- MODULE MCBusScan -----------------------------
(* Instances of BusScan for TLC. *)
EXTENDS BusScan

(* Two buses and all chip selects; as many I2C buses as a byte has values, *)
(* and as many chip selects of a bus, or SPI buses; names that are no      *)
(* number, too large, or spell a number in another way.                    *)
Directories ==
  {[i2c |-> {<<0, 0>>, <<1, 0>>}, spi |-> {<<0, 0>>, <<0, 1>>, <<1, 0>>}],
   [i2c |-> {<<0, 0>>, <<1, 0>>, <<2, 0>>, <<1, 1>>},
    spi |-> {<<1, 0>>, <<0, 0>>, <<0, 1>>, <<0, 2>>}],
   [i2c |-> {<<1, 0>>}, spi |-> {<<0, 0>>, <<1, 0>>, <<2, 0>>}],
   [i2c |-> {<<0, 1>>, <<1, 0>>, <<1, 1>>, <<3, 0>>},
    spi |-> {<<0, 0>>, <<3, 0>>, <<1, 3>>}]}

Places == ({"I2C"} \X {0, 1} \X Addr) \union {<<"SPI", 0, 0>>, <<"SPI", 0, 1>>, <<"SPI", 1, 0>>}

(* Up to three chips, at most two of a kind. *)
Layouts ==
  {l \in [Places -> Chip] :
     /\ Cardinality({p \in Places : l[p] = "accel"}) <= 2
     /\ Cardinality({p \in Places : l[p] = "gyro"}) <= 2
     /\ Cardinality({p \in Places : l[p] # "other"}) <= 3}
=============================================================================
