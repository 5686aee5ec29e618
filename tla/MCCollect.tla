----------------------------- MODULE MCCollect -----------------------------
EXTENDS Collect

MCSetups == {<<"video_parquet", "serving">>, <<"npz", "off">>}
=============================================================================
