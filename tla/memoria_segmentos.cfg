SPECIFICATION SpecM
CONSTANTS
  p1 = p1
  p2 = p2
  p3 = p3
  Procesos = {p1, p2}
  TamMemoria = 6
  TamSegmento0 = 1
  AlgoritmoAsignacion = "BEST"
  Tamanios = {1, 2, 3}
  Terminan = {p1, p2}
  MaxSegmentos = 2
  Modulo = 1024
  Basura <- BasuraMC
CHECK_DEADLOCK FALSE
SYMMETRY Simetria
INVARIANT SegmentosDisjuntos
INVARIANT HuecosLibres
INVARIANT TypeOKM
INVARIANT BytesConservados
PROPERTY CompactarAlcanza
