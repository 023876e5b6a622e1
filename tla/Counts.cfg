CONSTANTS
  Elms = {o1, o2, list}
  Objects = {o1, o2}
  Slots = {s1, s2}
  Strings = {str}
  Plain = {num}
  Width <- MCWidth
  RenderModes <- MCRenderModes
  KeyLen = 1
  Table = table
  Vacant = vacant
  MaxDeleted = 1
SPECIFICATION Spec
VIEW WithoutGarbage
SYMMETRY PlaceSymmetry
INVARIANTS CountsAreExact TablesAreRendered RenderSyncsAllModes
