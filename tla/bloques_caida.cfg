SPECIFICATION SpecC
CONSTANTS
  f1 = f1
  f2 = f2
  Archivos = {f1, f2}
  BLOCK_SIZE = 2
  BLOCK_COUNT = 6
  Tamanios <- Truncan
  MaxCaidas = 2
  MaxPedidos = 7

INVARIANT TypeOKC
INVARIANT SinCompartirEnDisco
INVARIANT UsadosMarcados
PROPERTY ConservaEnDisco
PROPERTY ImplementaBloques
CHECK_DEADLOCK FALSE
