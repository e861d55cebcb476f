-------------------------------- MODULE MCOcr --------------------------------
EXTENDS OcrPages

MCPictures == [one |-> <<"i", "i">>, two |-> <<"i">>]
=============================================================================
